---- MODULE Spec2Model ----
(***************************************************************************)
(* A model of CoverWizard's cover layout engine (src/cover_generator.py)   *)
(* and of its caller (src/main.py).                                        *)
(*                                                                         *)
(* The program computes with Python floats (IEEE-754 binary64) and         *)
(* truncates them with int(); the results of int() depend on the rounding  *)
(* of every intermediate operation.  The model therefore carries its own   *)
(* binary64 arithmetic: a float is a sign, a 53-bit mantissa and an        *)
(* exponent, the mantissa being a natural number held as a sequence of     *)
(* 15-bit limbs (least significant first), so that no intermediate value   *)
(* leaves the range of TLC's integers.                                     *)
(***************************************************************************)
EXTENDS Integers, Sequences, FiniteSets, TLC

(***************************************************************************)
(* The(S) is the element of a one-element set.  TLC evaluates an operator  *)
(* argument or a LET definition each time it is used; a value bound with   *)
(* The({body : x \in {value}}) is evaluated once.                          *)
(***************************************************************************)
The(S) == CHOOSE x \in S : TRUE

(***************************************************************************)
(* Natural numbers of any size: sequences of limbs, least significant      *)
(* first, without leading zero limbs; zero is the empty sequence.          *)
(***************************************************************************)
LimbBits == 15
Base == 2^15

BNorm(s) ==
  The({IF \A i \in 1..Len(x) : x[i] = 0 THEN <<>>
       ELSE SubSeq(x, 1, CHOOSE k \in 1..Len(x) :
                           x[k] # 0 /\ \A j \in (k + 1)..Len(x) : x[j] = 0) :
       x \in {s}})

BFromInt(n) ==
  The({IF x = 0 THEN <<>>
       ELSE IF x < Base THEN <<x>>
       ELSE IF x < Base * Base THEN <<x % Base, x \div Base>>
       ELSE <<x % Base, (x \div Base) % Base, x \div (Base * Base)>> :
       x \in {n}})

\* The value of a natural number below 2^30 as an integer.
BToInt(s) ==
  The({IF Len(x) = 0 THEN 0
       ELSE IF Len(x) = 1 THEN x[1]
       ELSE x[1] + Base * x[2] :
       x \in {s}})

BLimb(s, i) == IF i <= Len(s) THEN s[i] ELSE 0

RECURSIVE BAddC(_, _, _, _)
BAddC(a, b, i, c) ==
  IF i > Len(a) /\ i > Len(b)
  THEN (IF c = 0 THEN <<>> ELSE <<c>>)
  ELSE The({<<t % Base>> \o BAddC(a, b, i + 1, t \div Base) :
            t \in {BLimb(a, i) + BLimb(b, i) + c}})

BAdd(a, b) == The({BNorm(BAddC(x, y, 1, 0)) : x \in {a}, y \in {b}})

\* a - b for a >= b.
RECURSIVE BSubC(_, _, _, _)
BSubC(a, b, i, br) ==
  IF i > Len(a) THEN <<>>
  ELSE The({IF t < 0 THEN <<t + Base>> \o BSubC(a, b, i + 1, 1)
            ELSE <<t>> \o BSubC(a, b, i + 1, 0) :
            t \in {a[i] - BLimb(b, i) - br}})

BSub(a, b) == The({BNorm(BSubC(x, y, 1, 0)) : x \in {a}, y \in {b}})

RECURSIVE BCmpAt(_, _, _)
BCmpAt(a, b, i) ==
  IF i = 0 THEN 0
  ELSE IF a[i] # b[i] THEN (IF a[i] < b[i] THEN -1 ELSE 1)
  ELSE BCmpAt(a, b, i - 1)

\* -1, 0 or 1 as a < b, a = b or a > b.
BCmp(a, b) ==
  The({IF Len(x) # Len(y) THEN (IF Len(x) < Len(y) THEN -1 ELSE 1)
       ELSE BCmpAt(x, y, Len(x)) :
       x \in {a}, y \in {b}})

\* a * d for a limb d.
RECURSIVE BMulSmallC(_, _, _, _)
BMulSmallC(a, d, i, c) ==
  IF i > Len(a) THEN (IF c = 0 THEN <<>> ELSE <<c>>)
  ELSE The({<<t % Base>> \o BMulSmallC(a, d, i + 1, t \div Base) :
            t \in {a[i] * d + c}})

BMulSmall(a, d) ==
  The({IF y = 0 THEN <<>> ELSE BMulSmallC(x, y, 1, 0) : x \in {a}, y \in {d}})

\* a * b, limb i of b onward: a * (b[i] + Base * b[i+1] + ...).
RECURSIVE BMulAt(_, _, _)
BMulAt(a, b, i) ==
  IF i > Len(b) THEN <<>>
  ELSE The({BAddC(lo, <<0>> \o hi, 1, 0) :
            lo \in {BMulSmall(a, b[i])}, hi \in {BMulAt(a, b, i + 1)}})

BMul(a, b) == The({BNorm(BMulAt(x, y, 1)) : x \in {a}, y \in {b}})

\* a * 2^k.
BShl(a, k) ==
  The({IF x = <<>> THEN <<>>
       ELSE [i \in 1..(n \div LimbBits) |-> 0] \o BMulSmall(x, 2^(n % LimbBits)) :
       x \in {a}, n \in {k}})

\* Quotient and remainder of a by a limb d > 0, from limb i of a down.
RECURSIVE BDivSmallAt(_, _, _, _)
BDivSmallAt(a, d, i, r) ==
  IF i = 0 THEN [q |-> <<>>, r |-> r]
  ELSE The({The({[q |-> rest.q \o <<cur \div d>>, r |-> rest.r] :
                 rest \in {BDivSmallAt(a, d, i - 1, cur % d)}}) :
            cur \in {r * Base + a[i]}})

BDivSmall(a, d) ==
  The({[q |-> BNorm(res.q), r |-> BFromInt(res.r)] :
       res \in {The({BDivSmallAt(x, y, Len(x), 0) : x \in {a}, y \in {d}})}})

\* floor(a / 2^k).
BShr(a, k) ==
  The({IF n \div LimbBits >= Len(x) THEN <<>>
       ELSE BDivSmall(SubSeq(x, n \div LimbBits + 1, Len(x)),
                      2^(n % LimbBits)).q :
       x \in {a}, n \in {k}})

BitLenSmall(n) == CHOOSE k \in 1..LimbBits : 2^(k - 1) <= n /\ n < 2^k

BBitLen(a) ==
  The({IF x = <<>> THEN 0
       ELSE LimbBits * (Len(x) - 1) + BitLenSmall(x[Len(x)]) :
       x \in {a}})

\* Bit i (bit 0 is the least significant) of a.
BBit(a, i) == (BLimb(a, i \div LimbBits + 1) \div 2^(i % LimbBits)) % 2

\* The number of trailing zero bits of a # 0.
BTrailingZeros(a) ==
  The({The({LimbBits * (z - 1)
            + (CHOOSE k \in 0..(LimbBits - 1) :
                 x[z] % 2^k = 0 /\ (x[z] \div 2^k) % 2 = 1) :
            z \in {CHOOSE i \in 1..Len(x) :
                     x[i] # 0 /\ \A j \in 1..(i - 1) : x[j] = 0}}) :
       x \in {a}})

\* The largest limb d in lo..hi with q * d <= r, given q * lo <= r.
RECURSIVE BQuotLimb(_, _, _, _)
BQuotLimb(r, q, lo, hi) ==
  IF lo = hi THEN lo
  ELSE The({IF BCmp(BMulSmall(q, mid), r) <= 0
            THEN BQuotLimb(r, q, mid, hi)
            ELSE BQuotLimb(r, q, lo, mid - 1) :
            mid \in {(lo + hi + 1) \div 2}})

\* Long division by limbs, from limb i of p down to limb 1; r < q throughout.
RECURSIVE BLongDiv(_, _, _, _)
BLongDiv(p, q, i, r) ==
  IF i = 0 THEN [q |-> <<>>, r |-> r]
  ELSE The({The({The({[q |-> rest.q \o <<d>>, r |-> rest.r] :
                      rest \in {BLongDiv(p, q, i - 1, BSub(cur, BMulSmall(q, d)))}}) :
                 d \in {BQuotLimb(cur, q, 0, Base - 1)}}) :
            cur \in {BNorm(<<p[i]>> \o r)}})

\* Quotient and remainder of p by q > 0.
BDivMod(p, q) ==
  The({IF Len(y) = 1 THEN BDivSmall(x, y[1])
       ELSE The({[q |-> BNorm(res.q), r |-> res.r] :
                 res \in {BLongDiv(x, y, Len(x), <<>>)}}) :
       x \in {p}, y \in {q}})

(***************************************************************************)
(* Python floats.  [neg, m, e] is (-1)^neg * m * 2^e; m is zero (the empty *)
(* sequence, with e = 0) or has exactly MantBits bits, so that equal       *)
(* floats are equal records.  Every operation rounds its exact result to   *)
(* the nearest float, ties to the even mantissa, as binary64 does.  The    *)
(* program's values stay far from the overflow and subnormal ranges.       *)
(***************************************************************************)
MantBits == 53

FZero == [neg |-> FALSE, m |-> <<>>, e |-> 0]

\* n, of more than MantBits bits, rounded to its top MantBits bits: m0 is
\* n without its low k bits, c compares twice those low bits with 2^k.
FRoundCut(neg, sticky, e, k, m0, c) ==
  The({IF BBitLen(m1) > MantBits
       THEN [neg |-> neg, m |-> BShr(m1, 1), e |-> e + k + 1]
       ELSE [neg |-> neg, m |-> m1, e |-> e + k] :
       m1 \in {IF c > 0 \/ (c = 0 /\ (sticky \/ BBit(m0, 0) = 1))
               THEN BAdd(m0, <<1>>) ELSE m0}})

\* The float nearest to (n + f) * 2^e, where 0 <= f < 1, f # 0 exactly when
\* sticky, and n has at least MantBits + 2 bits whenever sticky.
FRound(neg, n, sticky, e) ==
  The({IF x = <<>> THEN FZero
       ELSE The({IF bl <= MantBits
                 THEN [neg |-> neg, m |-> BShl(x, MantBits - bl),
                       e |-> e - (MantBits - bl)]
                 ELSE The({FRoundCut(neg, sticky, e, bl - MantBits, m0,
                                     BCmp(BMulSmall(BSub(x, BShl(m0, bl - MantBits)), 2),
                                          BShl(<<1>>, bl - MantBits))) :
                           m0 \in {BShr(x, bl - MantBits)}}) :
                 bl \in {BBitLen(x)}}) :
       x \in {n}})

\* float(n) for an integer n.
FInt(n) ==
  The({FRound(x < 0, BFromInt(IF x < 0 THEN -x ELSE x), FALSE, 0) : x \in {n}})

FMul(a, b) ==
  The({FRound(x.neg # y.neg, BMul(x.m, y.m), FALSE, x.e + y.e) :
       x \in {a}, y \in {b}})

\* x / y for floats x # 0 and y # 0, t the trailing zero bits of y's mantissa
\* (they go to the exponent) and bm the mantissa without them.
FDivBy(x, y, t, bm) ==
  The({The({FRound(x.neg # y.neg, qr.q, qr.r # <<>>, x.e - (y.e + t) - s) :
            qr \in {BDivMod(BShl(x.m, s), bm)}}) :
       s \in {IF MantBits + 3 - (BBitLen(x.m) - BBitLen(bm)) > 0
              THEN MantBits + 3 - (BBitLen(x.m) - BBitLen(bm)) ELSE 0}})

\* a / b for b # 0.
FDiv(a, b) ==
  The({IF x.m = <<>> THEN FZero
       ELSE The({FDivBy(x, y, t, BShr(y.m, t)) : t \in {BTrailingZeros(y.m)}}) :
       x \in {a}, y \in {b}})

\* a + b for a >= 0 and b >= 0.
FAdd(a, b) ==
  The({IF x.m = <<>> THEN y
       ELSE IF y.m = <<>> THEN x
       ELSE The({FRound(FALSE, BAdd(BShl(x.m, x.e - e), BShl(y.m, y.e - e)),
                        FALSE, e) :
                 e \in {IF x.e < y.e THEN x.e ELSE y.e}}) :
       x \in {a}, y \in {b}})

\* -1, 0 or 1 as a < b, a = b or a > b, for a >= 0 and b >= 0.
FCmpMag(a, b) ==
  IF a.m = <<>> \/ b.m = <<>>
  THEN (IF a.m = b.m THEN 0 ELSE IF a.m = <<>> THEN -1 ELSE 1)
  ELSE IF a.e # b.e THEN (IF a.e < b.e THEN -1 ELSE 1)
  ELSE BCmp(a.m, b.m)

FCmp(a, b) ==
  The({IF x.neg /\ ~y.neg THEN -1
       ELSE IF ~x.neg /\ y.neg THEN 1
       ELSE IF x.neg THEN FCmpMag(y, x)
       ELSE FCmpMag(x, y) :
       x \in {a}, y \in {b}})

FLt(a, b) == FCmp(a, b) < 0
FLe(a, b) == FCmp(a, b) <= 0

\* Python's max(a, b): b when b > a, otherwise a.
FMax(a, b) == The({IF FLt(x, y) THEN y ELSE x : x \in {a}, y \in {b}})

\* Python's int(a): a truncated toward zero (|a| < 2^30).
FTrunc(a) ==
  The({IF x.m = <<>> THEN 0
       ELSE The({IF x.neg THEN -mag ELSE mag :
                 mag \in {IF x.e >= 0 THEN BToInt(BShl(x.m, x.e))
                          ELSE BToInt(BShr(x.m, -x.e))}}) :
       x \in {a}})

\* The float nearest to an / ad for naturals an and ad # 0, negated when neg.
FQuotNat(neg, an, ad) ==
  The({The({FRound(neg, qr.q, qr.r # <<>>, -s) :
            qr \in {BDivMod(BShl(BFromInt(an), s), BFromInt(ad))}}) :
       s \in {MantBits + 3 + BBitLen(BFromInt(ad))}})

\* Python's n / d for integers n and d # 0: the float nearest to the quotient.
\* A decimal literal num/den denotes the same float.
FQuot(n, d) ==
  The({FQuotNat((x < 0) # (y < 0), IF x < 0 THEN -x ELSE x, IF y < 0 THEN -y ELSE y) :
       x \in {n}, y \in {d}})

(***************************************************************************)
(* CoverGenerator: the class constants.                                    *)
(***************************************************************************)

\* TRIM_SIZES as written in the source, in hundredths of an inch; the float
\* a literal such as 6.14 denotes is the one nearest to 614/100.
TrimHundredths ==
  [t \in {"5x8", "5.25x8", "5.5x8.5", "6x9", "6.14x9.21", "6.69x9.61", "7x10",
          "7.44x9.69", "7.5x9.25", "8x10", "8.25x6", "8.25x8.25", "8.5x8.5",
          "8.5x11"} |->
     CASE t = "5x8"       -> <<500, 800>>
       [] t = "5.25x8"    -> <<525, 800>>
       [] t = "5.5x8.5"   -> <<550, 850>>
       [] t = "6x9"       -> <<600, 900>>
       [] t = "6.14x9.21" -> <<614, 921>>
       [] t = "6.69x9.61" -> <<669, 961>>
       [] t = "7x10"      -> <<700, 1000>>
       [] t = "7.44x9.69" -> <<744, 969>>
       [] t = "7.5x9.25"  -> <<750, 925>>
       [] t = "8x10"      -> <<800, 1000>>
       [] t = "8.25x6"    -> <<825, 600>>
       [] t = "8.25x8.25" -> <<825, 825>>
       [] t = "8.5x8.5"   -> <<850, 850>>
       [] t = "8.5x11"    -> <<850, 1100>>]

\* TRIM_SIZES[t] for a key t of the dictionary.
TRIM_SIZES(t) ==
  <<FQuot(TrimHundredths[t][1], 100), FQuot(TrimHundredths[t][2], 100)>>

\* A bleed of a sixteenth of an inch.
BLEED_MARGIN_sixteenth == FQuot(625, 10000)

BLEED_MARGIN == FQuot(125, 1000)

SAFE_MARGIN == FQuot(25, 100)

DPI == 300

(***************************************************************************)
(* The geometry calculator.                                                *)
(***************************************************************************)

\* The spine width without its minimum.
calculate_spine_width_no_minimum(page_count_) ==
  FMul(FQuot(page_count_, 2), FQuot(25, 10000))

calculate_spine_width(page_count_) ==
  LET spine_width   == FMul(FQuot(page_count_, 2), FQuot(25, 10000))
      minimum_spine == FQuot(6, 100)
  IN  FMax(spine_width, minimum_spine)

\* What a call that raised returns: nothing.
Raised == [raised |-> TRUE]

\* The dimensions with the bleed added on one side only.
get_cover_dimensions_one_bleed(trim_size_, page_count_) ==
  IF trim_size_ \notin DOMAIN TrimHundredths
  THEN Raised
  ELSE The({[raised       |-> FALSE,
             total_width  |-> FAdd(FAdd(FMul(width, FInt(2)), spine_width),
                                   BLEED_MARGIN),
             total_height |-> FAdd(height, BLEED_MARGIN),
             spine_width  |-> spine_width] :
            width       \in {TRIM_SIZES(trim_size_)[1]},
            height      \in {TRIM_SIZES(trim_size_)[2]},
            spine_width \in {calculate_spine_width(page_count_)}})

\* The dimensions with an unknown trim name read as "6x9" instead of raising.
get_cover_dimensions_default_trim(trim_size_, page_count_) ==
  The({The({[raised       |-> FALSE,
             total_width  |-> FAdd(FAdd(FMul(size[1], FInt(2)), spine_width),
                                   FMul(BLEED_MARGIN, FInt(2))),
             total_height |-> FAdd(size[2], FMul(BLEED_MARGIN, FInt(2))),
             spine_width  |-> spine_width] :
            size        \in {TRIM_SIZES(known)},
            spine_width \in {calculate_spine_width(page_count_)}}) :
       known \in {IF trim_size_ \in DOMAIN TrimHundredths
                  THEN trim_size_ ELSE "6x9"}})

get_cover_dimensions(trim_size_, page_count_) ==
  IF trim_size_ \notin DOMAIN TrimHundredths
  THEN Raised
  ELSE The({[raised       |-> FALSE,
             total_width  |-> FAdd(FAdd(FMul(width, FInt(2)), spine_width),
                                   FMul(BLEED_MARGIN, FInt(2))),
             total_height |-> FAdd(height, FMul(BLEED_MARGIN, FInt(2))),
             spine_width  |-> spine_width] :
            width       \in {TRIM_SIZES(trim_size_)[1]},
            height      \in {TRIM_SIZES(trim_size_)[2]},
            spine_width \in {calculate_spine_width(page_count_)}})

\* The pixel quantities with the bleed rounded up to the next pixel.
PixelGeometry_bleed_rounded_up(trim_size_, d) ==
  The({[width_px        |-> width_px,
        height_px       |-> height_px,
        spine_width_px  |-> spine_width_px,
        front_width_px  |-> front_width_px,
        front_height_px |-> front_height_px,
        cover_width_px  |-> front_width_px,
        cover_height_px |-> front_height_px,
        bleed_px        |-> bleed_px,
        safe_margin_px  |-> safe_margin_px,
        back_x          |-> bleed_px,
        back_y          |-> bleed_px,
        front_x         |-> width_px - bleed_px - front_width_px,
        front_y         |-> bleed_px,
        spine_x         |-> (width_px - bleed_px - front_width_px) - spine_width_px,
        spine_y         |-> bleed_px] :
       width_px        \in {FTrunc(FMul(d.total_width, FInt(DPI)))},
       height_px       \in {FTrunc(FMul(d.total_height, FInt(DPI)))},
       spine_width_px  \in {FTrunc(FMul(d.spine_width, FInt(DPI)))},
       front_width_px  \in {FTrunc(FMul(TRIM_SIZES(trim_size_)[1], FInt(DPI)))},
       front_height_px \in {FTrunc(FMul(TRIM_SIZES(trim_size_)[2], FInt(DPI)))},
       bleed_px        \in {FTrunc(FMul(BLEED_MARGIN, FInt(DPI))) + 1},
       safe_margin_px  \in {FTrunc(FMul(SAFE_MARGIN, FInt(DPI)))}})

\* generate_cover, "Convert to pixels" down to the placement of the panels:
\* every pixel quantity the compositor uses, from the dimensions d.
PixelGeometry(trim_size_, d) ==
  The({[width_px        |-> width_px,
        height_px       |-> height_px,
        spine_width_px  |-> spine_width_px,
        front_width_px  |-> front_width_px,
        front_height_px |-> front_height_px,
        cover_width_px  |-> front_width_px,
        cover_height_px |-> front_height_px,
        bleed_px        |-> bleed_px,
        safe_margin_px  |-> safe_margin_px,
        back_x          |-> bleed_px,
        back_y          |-> bleed_px,
        front_x         |-> width_px - bleed_px - front_width_px,
        front_y         |-> bleed_px,
        spine_x         |-> (width_px - bleed_px - front_width_px) - spine_width_px,
        spine_y         |-> bleed_px] :
       width_px        \in {FTrunc(FMul(d.total_width, FInt(DPI)))},
       height_px       \in {FTrunc(FMul(d.total_height, FInt(DPI)))},
       spine_width_px  \in {FTrunc(FMul(d.spine_width, FInt(DPI)))},
       front_width_px  \in {FTrunc(FMul(TRIM_SIZES(trim_size_)[1], FInt(DPI)))},
       front_height_px \in {FTrunc(FMul(TRIM_SIZES(trim_size_)[2], FInt(DPI)))},
       bleed_px        \in {FTrunc(FMul(BLEED_MARGIN, FInt(DPI)))},
       safe_margin_px  \in {FTrunc(FMul(SAFE_MARGIN, FInt(DPI)))}})

(***************************************************************************)
(* The panel fitter.  An image is known by its size <<width, height>>; a   *)
(* call runs under a set of faults, the library operations that raise in   *)
(* it: "open" (Image.open: a missing or undecodable file), "resize" (every *)
(* Image.resize: a truncated image fails when its pixels are loaded),      *)
(* "blur" (the Gaussian filter) and "compose" (the crop or paste that      *)
(* builds the result of extend_image_intelligently).                       *)
(***************************************************************************)
FaultKinds == {"open", "resize", "blur", "compose"}

\* Image.resize((w, h)): Pillow raises ValueError unless both are positive.
ImgResize(size, faults) ==
  IF "resize" \in faults \/ size[1] < 1 \/ size[2] < 1
  THEN Raised
  ELSE [raised |-> FALSE, size |-> size]

\* Image.crop((left, top, right, bottom)): an image of the size of the box.
ImgCrop(left, top, right, bottom) == <<right - left, bottom - top>>

\* A minimum fill of four fifths.
min_fill_ratio_four_fifths == FQuot(80, 100)

min_fill_ratio == FQuot(85, 100)

\* Returns the size and the kind of the background: the blurred image, or the
\* solid colour of the except clause.  new is (new_width, new_height).
create_blurred_background(img_, target_width, target_height, faults) ==
  The({IF ImgResize(new, faults).raised \/ "blur" \in faults
       THEN [size |-> <<target_width, target_height>>, kind |-> "solid"]
       ELSE LET left == (new[1] - target_width) \div 2
                top  == (new[2] - target_height) \div 2
            IN  [size |-> ImgCrop(left, top, left + target_width,
                                  top + target_height),
                 kind |-> "blur"] :
       new \in {IF FLt(FQuot(target_width, target_height), FQuot(img_[1], img_[2]))
                THEN <<FTrunc(FMul(FInt(img_[1]), FQuot(target_height, img_[2]))),
                       target_height>>
                ELSE <<target_width,
                       FTrunc(FMul(FInt(img_[2]), FQuot(target_width, img_[1])))>>}})

\* new is (new_width, new_height): Python's int(new_height * img_ratio) and
\* int(new_width / img_ratio).
simple_resize_fallback(img_, target_width, target_height, faults) ==
  The({IF ImgResize(new, faults).raised
       THEN Raised
       ELSE [raised     |-> FALSE,
             size       |-> <<target_width, target_height>>,
             path       |-> "fallback",
             scaled     |-> new,
             offset     |-> <<(target_width - new[1]) \div 2,
                              (target_height - new[2]) \div 2>>,
             background |-> "white"] :
       new \in {The({IF FLt(FQuot(target_width, target_height), img_ratio)
                     THEN <<FTrunc(FMul(FInt(target_height), img_ratio)),
                            target_height>>
                     ELSE <<target_width,
                            FTrunc(FDiv(FInt(target_width), img_ratio))>> :
                     img_ratio \in {FQuot(img_[1], img_[2])}})}})

\* extend_image_intelligently when the coverage is too small: both sides
\* scaled by (target * min_fill_ratio) / side.
ScaledUp(img_, target_side, side) ==
  The({<<FTrunc(FMul(FInt(img_[1]), scale_factor)),
         FTrunc(FMul(FInt(img_[2]), scale_factor))>> :
       scale_factor \in {FDiv(FMul(FInt(target_side), min_fill_ratio),
                              FInt(side))}})

\* Step 1 of extend_image_intelligently: (new_width, new_height), the size
\* the image is scaled to.
ScaledSize(img_, target_width, target_height) ==
  IF FLt(FQuot(target_width, target_height), FQuot(img_[1], img_[2]))
  THEN The({IF FLt(FQuot(new_height, target_height), min_fill_ratio)
            THEN ScaledUp(img_, target_height, img_[2])
            ELSE <<target_width, new_height>> :
            new_height \in {FTrunc(FMul(FInt(img_[2]),
                                        FQuot(target_width, img_[1])))}})
  ELSE The({IF FLt(FQuot(new_width, target_width), min_fill_ratio)
            THEN ScaledUp(img_, target_width, img_[1])
            ELSE <<new_width, target_height>> :
            new_width \in {FTrunc(FMul(FInt(img_[1]),
                                       FQuot(target_height, img_[2])))}})

\* Steps 2 and 3, for the scaled size new: the centred crop, or the scaled
\* image centred on the background.
Compose(img_, target_width, target_height, faults, new) ==
  IF new[1] >= target_width /\ new[2] >= target_height
  THEN LET left == (new[1] - target_width) \div 2
           top  == (new[2] - target_height) \div 2
       IN  [raised     |-> FALSE,
            size       |-> ImgCrop(left, top, left + target_width,
                                   top + target_height),
            path       |-> "crop",
            scaled     |-> new,
            offset     |-> <<left, top>>,
            background |-> "none"]
  ELSE The({[raised     |-> FALSE,
             size       |-> bg.size,
             path       |-> "background",
             scaled     |-> new,
             offset     |-> <<(target_width - new[1]) \div 2,
                              (target_height - new[2]) \div 2>>,
             background |-> bg.kind] :
            bg \in {create_blurred_background(img_, target_width,
                                              target_height, faults)}})

extend_image_intelligently(img_, target_width, target_height, faults) ==
  The({IF ImgResize(new, faults).raised \/ "compose" \in faults
       THEN simple_resize_fallback(img_, target_width, target_height, faults)
       ELSE Compose(img_, target_width, target_height, faults, new) :
       new \in {ScaledSize(img_, target_width, target_height)}})

\* The scaled image returned as it is, neither composed nor snapped.
load_and_resize_image_scaled_only(img_, target_width, target_height, faults) ==
  IF "open" \in faults
  THEN Raised
  ELSE The({IF final_img.raised THEN Raised
            ELSE [final_img EXCEPT !.size = final_img.scaled] :
            final_img \in {extend_image_intelligently(img_, target_width,
                                                      target_height, faults)}})

\* The forced resize of load_and_resize_image snaps a result of another size.
load_and_resize_image(img_, target_width, target_height, faults) ==
  IF "open" \in faults
  THEN Raised
  ELSE The({IF final_img.raised THEN Raised
            ELSE IF final_img.size # <<target_width, target_height>>
            THEN (IF ImgResize(<<target_width, target_height>>, faults).raised
                  THEN Raised
                  ELSE [final_img EXCEPT !.size = <<target_width, target_height>>])
            ELSE final_img :
            final_img \in {extend_image_intelligently(img_, target_width,
                                                      target_height, faults)}})

(***************************************************************************)
(* Text and colours.  A text and a colour string are sequences of          *)
(* characters.  A character is a string of one character; one that has no  *)
(* escape here is written as its Python escape ("\\x0b" is the vertical    *)
(* tab).  The requests of the cover machine abbreviate a run of characters *)
(* that are not whitespace to one element ("Spine").                       *)
(***************************************************************************)
\* The characters for which str.isspace() holds: str.strip() and str.split()
\* take them off.
Whitespace ==
  {" ", "\t", "\n", "\r", "\f", "\\x0b", "\\x1c", "\\x1d", "\\x1e", "\\x1f",
   "\\x85", "\\xa0", "\\u1680", "\\u2000", "\\u2001", "\\u2002", "\\u2003",
   "\\u2004", "\\u2005", "\\u2006", "\\u2007", "\\u2008", "\\u2009",
   "\\u200a", "\\u2028", "\\u2029", "\\u202f", "\\u205f", "\\u3000"}

\* The whitespace int() takes off both ends of its argument: the separators
\* \x1c to \x1f are not part of it.
IntWhitespace == Whitespace \ {"\\x1c", "\\x1d", "\\x1e", "\\x1f"}

IsSpace(c) == c \in Whitespace

\* text.strip() is not empty.
HasText(text) == \E i \in 1..Len(text) : ~IsSpace(text[i])

\* not text.strip()
IsBlank(text) == ~HasText(text)

\* str.strip()
Strip(text) ==
  IF ~HasText(text) THEN <<>> ELSE
  SubSeq(text,
         CHOOSE i \in 1..Len(text) :
           ~IsSpace(text[i]) /\ \A j \in 1..(i - 1) : IsSpace(text[j]),
         CHOOSE i \in 1..Len(text) :
           ~IsSpace(text[i]) /\ \A j \in (i + 1)..Len(text) : IsSpace(text[j]))

\* The characters of Unicode category Nd, the decimal digits of every script:
\* int() reads each as its value.  One row per script, digit 0 first; the
\* first row is ASCII.  "\\u0663" is ARABIC-INDIC DIGIT THREE.
DecimalDigits ==
  <<
    <<"0", "1", "2", "3", "4", "5", "6", "7", "8", "9">>,
    <<"\\u0660", "\\u0661", "\\u0662", "\\u0663", "\\u0664",
      "\\u0665", "\\u0666", "\\u0667", "\\u0668", "\\u0669">>,
    <<"\\u06f0", "\\u06f1", "\\u06f2", "\\u06f3", "\\u06f4",
      "\\u06f5", "\\u06f6", "\\u06f7", "\\u06f8", "\\u06f9">>,
    <<"\\u07c0", "\\u07c1", "\\u07c2", "\\u07c3", "\\u07c4",
      "\\u07c5", "\\u07c6", "\\u07c7", "\\u07c8", "\\u07c9">>,
    <<"\\u0966", "\\u0967", "\\u0968", "\\u0969", "\\u096a",
      "\\u096b", "\\u096c", "\\u096d", "\\u096e", "\\u096f">>,
    <<"\\u09e6", "\\u09e7", "\\u09e8", "\\u09e9", "\\u09ea",
      "\\u09eb", "\\u09ec", "\\u09ed", "\\u09ee", "\\u09ef">>,
    <<"\\u0a66", "\\u0a67", "\\u0a68", "\\u0a69", "\\u0a6a",
      "\\u0a6b", "\\u0a6c", "\\u0a6d", "\\u0a6e", "\\u0a6f">>,
    <<"\\u0ae6", "\\u0ae7", "\\u0ae8", "\\u0ae9", "\\u0aea",
      "\\u0aeb", "\\u0aec", "\\u0aed", "\\u0aee", "\\u0aef">>,
    <<"\\u0b66", "\\u0b67", "\\u0b68", "\\u0b69", "\\u0b6a",
      "\\u0b6b", "\\u0b6c", "\\u0b6d", "\\u0b6e", "\\u0b6f">>,
    <<"\\u0be6", "\\u0be7", "\\u0be8", "\\u0be9", "\\u0bea",
      "\\u0beb", "\\u0bec", "\\u0bed", "\\u0bee", "\\u0bef">>,
    <<"\\u0c66", "\\u0c67", "\\u0c68", "\\u0c69", "\\u0c6a",
      "\\u0c6b", "\\u0c6c", "\\u0c6d", "\\u0c6e", "\\u0c6f">>,
    <<"\\u0ce6", "\\u0ce7", "\\u0ce8", "\\u0ce9", "\\u0cea",
      "\\u0ceb", "\\u0cec", "\\u0ced", "\\u0cee", "\\u0cef">>,
    <<"\\u0d66", "\\u0d67", "\\u0d68", "\\u0d69", "\\u0d6a",
      "\\u0d6b", "\\u0d6c", "\\u0d6d", "\\u0d6e", "\\u0d6f">>,
    <<"\\u0de6", "\\u0de7", "\\u0de8", "\\u0de9", "\\u0dea",
      "\\u0deb", "\\u0dec", "\\u0ded", "\\u0dee", "\\u0def">>,
    <<"\\u0e50", "\\u0e51", "\\u0e52", "\\u0e53", "\\u0e54",
      "\\u0e55", "\\u0e56", "\\u0e57", "\\u0e58", "\\u0e59">>,
    <<"\\u0ed0", "\\u0ed1", "\\u0ed2", "\\u0ed3", "\\u0ed4",
      "\\u0ed5", "\\u0ed6", "\\u0ed7", "\\u0ed8", "\\u0ed9">>,
    <<"\\u0f20", "\\u0f21", "\\u0f22", "\\u0f23", "\\u0f24",
      "\\u0f25", "\\u0f26", "\\u0f27", "\\u0f28", "\\u0f29">>,
    <<"\\u1040", "\\u1041", "\\u1042", "\\u1043", "\\u1044",
      "\\u1045", "\\u1046", "\\u1047", "\\u1048", "\\u1049">>,
    <<"\\u1090", "\\u1091", "\\u1092", "\\u1093", "\\u1094",
      "\\u1095", "\\u1096", "\\u1097", "\\u1098", "\\u1099">>,
    <<"\\u17e0", "\\u17e1", "\\u17e2", "\\u17e3", "\\u17e4",
      "\\u17e5", "\\u17e6", "\\u17e7", "\\u17e8", "\\u17e9">>,
    <<"\\u1810", "\\u1811", "\\u1812", "\\u1813", "\\u1814",
      "\\u1815", "\\u1816", "\\u1817", "\\u1818", "\\u1819">>,
    <<"\\u1946", "\\u1947", "\\u1948", "\\u1949", "\\u194a",
      "\\u194b", "\\u194c", "\\u194d", "\\u194e", "\\u194f">>,
    <<"\\u19d0", "\\u19d1", "\\u19d2", "\\u19d3", "\\u19d4",
      "\\u19d5", "\\u19d6", "\\u19d7", "\\u19d8", "\\u19d9">>,
    <<"\\u1a80", "\\u1a81", "\\u1a82", "\\u1a83", "\\u1a84",
      "\\u1a85", "\\u1a86", "\\u1a87", "\\u1a88", "\\u1a89">>,
    <<"\\u1a90", "\\u1a91", "\\u1a92", "\\u1a93", "\\u1a94",
      "\\u1a95", "\\u1a96", "\\u1a97", "\\u1a98", "\\u1a99">>,
    <<"\\u1b50", "\\u1b51", "\\u1b52", "\\u1b53", "\\u1b54",
      "\\u1b55", "\\u1b56", "\\u1b57", "\\u1b58", "\\u1b59">>,
    <<"\\u1bb0", "\\u1bb1", "\\u1bb2", "\\u1bb3", "\\u1bb4",
      "\\u1bb5", "\\u1bb6", "\\u1bb7", "\\u1bb8", "\\u1bb9">>,
    <<"\\u1c40", "\\u1c41", "\\u1c42", "\\u1c43", "\\u1c44",
      "\\u1c45", "\\u1c46", "\\u1c47", "\\u1c48", "\\u1c49">>,
    <<"\\u1c50", "\\u1c51", "\\u1c52", "\\u1c53", "\\u1c54",
      "\\u1c55", "\\u1c56", "\\u1c57", "\\u1c58", "\\u1c59">>,
    <<"\\ua620", "\\ua621", "\\ua622", "\\ua623", "\\ua624",
      "\\ua625", "\\ua626", "\\ua627", "\\ua628", "\\ua629">>,
    <<"\\ua8d0", "\\ua8d1", "\\ua8d2", "\\ua8d3", "\\ua8d4",
      "\\ua8d5", "\\ua8d6", "\\ua8d7", "\\ua8d8", "\\ua8d9">>,
    <<"\\ua900", "\\ua901", "\\ua902", "\\ua903", "\\ua904",
      "\\ua905", "\\ua906", "\\ua907", "\\ua908", "\\ua909">>,
    <<"\\ua9d0", "\\ua9d1", "\\ua9d2", "\\ua9d3", "\\ua9d4",
      "\\ua9d5", "\\ua9d6", "\\ua9d7", "\\ua9d8", "\\ua9d9">>,
    <<"\\ua9f0", "\\ua9f1", "\\ua9f2", "\\ua9f3", "\\ua9f4",
      "\\ua9f5", "\\ua9f6", "\\ua9f7", "\\ua9f8", "\\ua9f9">>,
    <<"\\uaa50", "\\uaa51", "\\uaa52", "\\uaa53", "\\uaa54",
      "\\uaa55", "\\uaa56", "\\uaa57", "\\uaa58", "\\uaa59">>,
    <<"\\uabf0", "\\uabf1", "\\uabf2", "\\uabf3", "\\uabf4",
      "\\uabf5", "\\uabf6", "\\uabf7", "\\uabf8", "\\uabf9">>,
    <<"\\uff10", "\\uff11", "\\uff12", "\\uff13", "\\uff14",
      "\\uff15", "\\uff16", "\\uff17", "\\uff18", "\\uff19">>,
    <<"\\U000104a0", "\\U000104a1", "\\U000104a2", "\\U000104a3",
      "\\U000104a4", "\\U000104a5", "\\U000104a6", "\\U000104a7",
      "\\U000104a8", "\\U000104a9">>,
    <<"\\U00010d30", "\\U00010d31", "\\U00010d32", "\\U00010d33",
      "\\U00010d34", "\\U00010d35", "\\U00010d36", "\\U00010d37",
      "\\U00010d38", "\\U00010d39">>,
    <<"\\U00011066", "\\U00011067", "\\U00011068", "\\U00011069",
      "\\U0001106a", "\\U0001106b", "\\U0001106c", "\\U0001106d",
      "\\U0001106e", "\\U0001106f">>,
    <<"\\U000110f0", "\\U000110f1", "\\U000110f2", "\\U000110f3",
      "\\U000110f4", "\\U000110f5", "\\U000110f6", "\\U000110f7",
      "\\U000110f8", "\\U000110f9">>,
    <<"\\U00011136", "\\U00011137", "\\U00011138", "\\U00011139",
      "\\U0001113a", "\\U0001113b", "\\U0001113c", "\\U0001113d",
      "\\U0001113e", "\\U0001113f">>,
    <<"\\U000111d0", "\\U000111d1", "\\U000111d2", "\\U000111d3",
      "\\U000111d4", "\\U000111d5", "\\U000111d6", "\\U000111d7",
      "\\U000111d8", "\\U000111d9">>,
    <<"\\U000112f0", "\\U000112f1", "\\U000112f2", "\\U000112f3",
      "\\U000112f4", "\\U000112f5", "\\U000112f6", "\\U000112f7",
      "\\U000112f8", "\\U000112f9">>,
    <<"\\U00011450", "\\U00011451", "\\U00011452", "\\U00011453",
      "\\U00011454", "\\U00011455", "\\U00011456", "\\U00011457",
      "\\U00011458", "\\U00011459">>,
    <<"\\U000114d0", "\\U000114d1", "\\U000114d2", "\\U000114d3",
      "\\U000114d4", "\\U000114d5", "\\U000114d6", "\\U000114d7",
      "\\U000114d8", "\\U000114d9">>,
    <<"\\U00011650", "\\U00011651", "\\U00011652", "\\U00011653",
      "\\U00011654", "\\U00011655", "\\U00011656", "\\U00011657",
      "\\U00011658", "\\U00011659">>,
    <<"\\U000116c0", "\\U000116c1", "\\U000116c2", "\\U000116c3",
      "\\U000116c4", "\\U000116c5", "\\U000116c6", "\\U000116c7",
      "\\U000116c8", "\\U000116c9">>,
    <<"\\U00011730", "\\U00011731", "\\U00011732", "\\U00011733",
      "\\U00011734", "\\U00011735", "\\U00011736", "\\U00011737",
      "\\U00011738", "\\U00011739">>,
    <<"\\U000118e0", "\\U000118e1", "\\U000118e2", "\\U000118e3",
      "\\U000118e4", "\\U000118e5", "\\U000118e6", "\\U000118e7",
      "\\U000118e8", "\\U000118e9">>,
    <<"\\U00011950", "\\U00011951", "\\U00011952", "\\U00011953",
      "\\U00011954", "\\U00011955", "\\U00011956", "\\U00011957",
      "\\U00011958", "\\U00011959">>,
    <<"\\U00011c50", "\\U00011c51", "\\U00011c52", "\\U00011c53",
      "\\U00011c54", "\\U00011c55", "\\U00011c56", "\\U00011c57",
      "\\U00011c58", "\\U00011c59">>,
    <<"\\U00011d50", "\\U00011d51", "\\U00011d52", "\\U00011d53",
      "\\U00011d54", "\\U00011d55", "\\U00011d56", "\\U00011d57",
      "\\U00011d58", "\\U00011d59">>,
    <<"\\U00011da0", "\\U00011da1", "\\U00011da2", "\\U00011da3",
      "\\U00011da4", "\\U00011da5", "\\U00011da6", "\\U00011da7",
      "\\U00011da8", "\\U00011da9">>,
    <<"\\U00016a60", "\\U00016a61", "\\U00016a62", "\\U00016a63",
      "\\U00016a64", "\\U00016a65", "\\U00016a66", "\\U00016a67",
      "\\U00016a68", "\\U00016a69">>,
    <<"\\U00016ac0", "\\U00016ac1", "\\U00016ac2", "\\U00016ac3",
      "\\U00016ac4", "\\U00016ac5", "\\U00016ac6", "\\U00016ac7",
      "\\U00016ac8", "\\U00016ac9">>,
    <<"\\U00016b50", "\\U00016b51", "\\U00016b52", "\\U00016b53",
      "\\U00016b54", "\\U00016b55", "\\U00016b56", "\\U00016b57",
      "\\U00016b58", "\\U00016b59">>,
    <<"\\U0001d7ce", "\\U0001d7cf", "\\U0001d7d0", "\\U0001d7d1",
      "\\U0001d7d2", "\\U0001d7d3", "\\U0001d7d4", "\\U0001d7d5",
      "\\U0001d7d6", "\\U0001d7d7">>,
    <<"\\U0001d7d8", "\\U0001d7d9", "\\U0001d7da", "\\U0001d7db",
      "\\U0001d7dc", "\\U0001d7dd", "\\U0001d7de", "\\U0001d7df",
      "\\U0001d7e0", "\\U0001d7e1">>,
    <<"\\U0001d7e2", "\\U0001d7e3", "\\U0001d7e4", "\\U0001d7e5",
      "\\U0001d7e6", "\\U0001d7e7", "\\U0001d7e8", "\\U0001d7e9",
      "\\U0001d7ea", "\\U0001d7eb">>,
    <<"\\U0001d7ec", "\\U0001d7ed", "\\U0001d7ee", "\\U0001d7ef",
      "\\U0001d7f0", "\\U0001d7f1", "\\U0001d7f2", "\\U0001d7f3",
      "\\U0001d7f4", "\\U0001d7f5">>,
    <<"\\U0001d7f6", "\\U0001d7f7", "\\U0001d7f8", "\\U0001d7f9",
      "\\U0001d7fa", "\\U0001d7fb", "\\U0001d7fc", "\\U0001d7fd",
      "\\U0001d7fe", "\\U0001d7ff">>,
    <<"\\U0001e140", "\\U0001e141", "\\U0001e142", "\\U0001e143",
      "\\U0001e144", "\\U0001e145", "\\U0001e146", "\\U0001e147",
      "\\U0001e148", "\\U0001e149">>,
    <<"\\U0001e2f0", "\\U0001e2f1", "\\U0001e2f2", "\\U0001e2f3",
      "\\U0001e2f4", "\\U0001e2f5", "\\U0001e2f6", "\\U0001e2f7",
      "\\U0001e2f8", "\\U0001e2f9">>,
    <<"\\U0001e950", "\\U0001e951", "\\U0001e952", "\\U0001e953",
      "\\U0001e954", "\\U0001e955", "\\U0001e956", "\\U0001e957",
      "\\U0001e958", "\\U0001e959">>,
    <<"\\U0001fbf0", "\\U0001fbf1", "\\U0001fbf2", "\\U0001fbf3",
      "\\U0001fbf4", "\\U0001fbf5", "\\U0001fbf6", "\\U0001fbf7",
      "\\U0001fbf8", "\\U0001fbf9">>
  >>

\* The letters int(x, 16) reads as the digits ten to fifteen.
HexLetters == << <<"a", "b", "c", "d", "e", "f">>,
                <<"A", "B", "C", "D", "E", "F">> >>

\* The characters int(c, 16) takes as a digit.
HexDigits ==
  {DecimalDigits[r][i] : r \in DOMAIN DecimalDigits, i \in 1..10}
  \cup {HexLetters[r][i] : r \in 1..2, i \in 1..6}

IsHex(c) == c \in HexDigits

HexValue(c) ==
  IF \E r \in 1..2, i \in 1..6 : HexLetters[r][i] = c
  THEN (CHOOSE i \in 1..6 : \E r \in 1..2 : HexLetters[r][i] = c) + 9
  ELSE (CHOOSE i \in 1..10 :
          \E r \in DOMAIN DecimalDigits : DecimalDigits[r][i] = c) - 1

\* The digits of the argument of int(x, 16), x being at most two characters
\* long: x without the whitespace at its ends and without a sign before the
\* first digit.
IntDigits(x) ==
  LET first == CHOOSE i \in 1..(Len(x) + 1) :
                 /\ i = Len(x) + 1 \/ x[i] \notin IntWhitespace
                 /\ \A j \in 1..(i - 1) : x[j] \in IntWhitespace
      last  == CHOOSE i \in 0..Len(x) :
                 /\ i = 0 \/ x[i] \notin IntWhitespace
                 /\ \A j \in (i + 1)..Len(x) : x[j] \in IntWhitespace
      t     == SubSeq(x, first, last)
  IN  IF t # <<>> /\ t[1] \in {"+", "-"} THEN Tail(t) ELSE t

\* x has a minus sign before its first digit.
IntNegative(x) ==
  \E i \in 1..Len(x) : x[i] = "-" /\ \A j \in 1..(i - 1) : x[j] \in IntWhitespace

\* int(color[i:i+2], 16) for i in (0, 2, 4), after a leading '#' is dropped:
\* a slice raises ValueError unless it is one or two hexadecimal digits, of
\* either case and of any script, or one digit after a sign or beside a
\* whitespace character.
ParseColor(color) ==
  LET c == IF color # <<>> /\ color[1] = "#" THEN Tail(color) ELSE color
      Slice(i) == SubSeq(c, i + 1, IF i + 2 <= Len(c) THEN i + 2 ELSE Len(c))
      Valid(x) == /\ IntDigits(x) # <<>>
                  /\ \A k \in 1..Len(IntDigits(x)) : IsHex(IntDigits(x)[k])
      Digits(d) == IF Len(d) = 1 THEN HexValue(d[1])
                   ELSE 16 * HexValue(d[1]) + HexValue(d[2])
      Value(x) == IF IntNegative(x) THEN -Digits(IntDigits(x))
                  ELSE Digits(IntDigits(x))
  IN  IF Valid(Slice(0)) /\ Valid(Slice(2)) /\ Valid(Slice(4))
      THEN [raised |-> FALSE,
            rgb |-> <<Value(Slice(0)), Value(Slice(2)), Value(Slice(4))>>]
      ELSE Raised

HasKeys(bd, keys) == keys \subseteq DOMAIN bd

(***************************************************************************)
(* The three text renderers.  Each wraps its whole body in try/except and  *)
(* logs: the result is "drawn", "skipped" (nothing to draw) or "swallowed" *)
(* (an exception was caught and logged).  lib_fails: a drawing call of the *)
(* imaging library raises.                                                 *)
(***************************************************************************)
\* The front text drawn outside any try: its exception reaches the caller.
add_front_cover_text_unguarded(bd, lib_fails) ==
  IF \/ ~HasKeys(bd, {"text_color", "title_font_size", "title", "subtitle",
                      "author_font_size", "author"})
     \/ ParseColor(bd.text_color).raised
     \/ lib_fails
  THEN "raised"
  ELSE "drawn"

add_front_cover_text(bd, lib_fails) ==
  IF \/ ~HasKeys(bd, {"text_color", "title_font_size", "title", "subtitle",
                      "author_font_size", "author"})
     \/ ParseColor(bd.text_color).raised
     \/ lib_fails
  THEN "swallowed"
  ELSE "drawn"

add_spine_text(bd, lib_fails) ==
  IF ~HasKeys(bd, {"spine_text"}) THEN "swallowed"
  ELSE IF IsBlank(bd.spine_text) THEN "skipped"
  ELSE IF \/ ~HasKeys(bd, {"text_color"})
          \/ ParseColor(bd.text_color).raised
          \/ lib_fails
  THEN "swallowed"
  ELSE "drawn"

add_back_cover_text(bd, lib_fails) ==
  IF ~HasKeys(bd, {"back_cover_text"}) \/ IsBlank(bd.back_cover_text)
  THEN "skipped"
  ELSE IF \/ ~HasKeys(bd, {"text_color", "author_font_size"})
          \/ ParseColor(bd.text_color).raised
          \/ lib_fails
  THEN "swallowed"
  ELSE "drawn"

(***************************************************************************)
(* The document exporter.  how: "ok", or the call that raises: "canvas"    *)
(* (canvas.Canvas), "draw" (drawImage), "open" (save cannot create the     *)
(* file) or "write" (save fails after it created the file).  create_pdf    *)
(* logs and re-raises; it never removes what save has written.             *)
(***************************************************************************)
PdfOutcomes == {"ok", "canvas", "draw", "open", "write"}

create_pdf(how) ==
  [raised |-> how # "ok",
   output |-> CASE how = "ok"    -> "complete"
                [] how = "write" -> "partial"
                [] OTHER         -> "none"]

(***************************************************************************)
(* State.                                                                  *)
(***************************************************************************)
VARIABLES
  pc,               \* the statement the call is at
  book_data,        \* the request: a function from the keys present
  back_image_path,  \* TRUE when a back image is given
  front_image,      \* the size of the front image file
  back_image,       \* the size of the back image file
  spine,            \* the last result of calculate_spine_width, with its input
  dims,             \* the result of get_cover_dimensions
  pixels,           \* the pixel quantities of generate_cover
  cover,            \* the canvas
  pasted,           \* the panels pasted on the canvas, in order
  trace,            \* the compositing steps run, in order
  faulted,          \* the steps in which an exception was raised
  temp_file,        \* "none", "exists" or "deleted"
  output,           \* the file at output_path: "none", "partial" or "complete"
  result,           \* "running", "True", "False", or "raised"
  img,              \* panel fitter: the source image size
  target,           \* panel fitter: the target size
  faults,           \* panel fitter: the library operations that raise
  fit,              \* panel fitter: the result of load_and_resize_image
  wrap,             \* text wrapping: the state of the wrapping loop
  draws,            \* the text drawing calls made, in order
  region,           \* the panel a text renderer is called on
  upload            \* the POST handler: the request, the uploaded files, the response

vars == <<pc, book_data, back_image_path, front_image, back_image, spine, dims,
          pixels, cover, pasted, trace, faulted, temp_file, output, result,
          img, target, faults, fit, wrap, draws, region, upload>>

coverVars == <<cover, pasted, trace, faulted, temp_file, output, result>>
fitVars == <<img, target, faults, fit>>
textVars == <<wrap, draws, region>>
requestVars == <<book_data, back_image_path, front_image, back_image>>

Pending == [pending |-> TRUE]

IdleCover ==
  /\ cover = Pending /\ pasted = <<>> /\ trace = <<>> /\ faulted = {}
  /\ temp_file = "none" /\ output = "none" /\ result = "running"

IdleFit == img = <<1, 1>> /\ target = <<1, 1>> /\ faults = {} /\ fit = Pending

IdleText == wrap = Pending /\ draws = <<>> /\ region = Pending

IdleUpload == upload = Pending

IdleGeometry == spine = Pending /\ dims = Pending /\ pixels = Pending

(***************************************************************************)
(* Requests.                                                               *)
(***************************************************************************)
White    == <<"#", "F", "F", "F", "F", "F", "F">>
Black    == <<"#", "0", "0", "0", "0", "0", "0">>
BadColor == <<"r", "e", "d">>
\* What a browser's colour input submits for white: lower-case digits.
LowerWhite == <<"#", "f", "f", "f", "f", "f", "f">>

\* The dictionary index() builds from the form (src/main.py).
BookData(trim, pages, spine_words, back_words, color) ==
  [title            |-> <<"Title">>,
   subtitle         |-> <<"Sub">>,
   author           |-> <<"Author">>,
   spine_text       |-> spine_words,
   back_cover_text  |-> back_words,
   page_count       |-> pages,
   trim_size        |-> trim,
   title_font_size  |-> 48,
   author_font_size |-> 24,
   text_color       |-> color]

DropKey(bd, k) == [x \in DOMAIN bd \ {k} |-> bd[x]]

CoverRequests ==
  {BookData(t, p, sp, bk, c) :
     t \in {"6x9", "8.25x6", "9x9"}, p \in {1, 200},
     sp \in {<<>>, <<"\t">>, <<"Spine">>}, bk \in {<<>>, <<"Back", "copy">>},
     c \in {White, Black, BadColor, LowerWhite}}
  \cup
  {DropKey(BookData("6x9", 200, <<"Spine">>, <<"Back", "copy">>, White), k) :
     k \in {"trim_size", "page_count", "spine_text", "back_cover_text",
            "text_color", "title"}}

\* The fault sets a call of the panel fitter is run under.
FaultSets == {{}} \cup {{k} : k \in FaultKinds}

(***************************************************************************)
(* generate_cover, statement by statement.  An exception raised in a step  *)
(* is recorded in faulted; one that reaches generate_cover's own try takes *)
(* the call to its except clause.                                          *)
(***************************************************************************)
Init ==
  /\ pc = "start"
  /\ book_data \in CoverRequests
  /\ back_image_path \in BOOLEAN
  /\ front_image = <<1500, 2000>>
  /\ back_image = <<2000, 3000>>
  /\ IdleUpload /\ IdleGeometry /\ IdleCover /\ IdleFit /\ IdleText

Fail(step) == faulted' = faulted \cup {step} /\ pc' = "except"

\* An except clause that raises again.
generate_cover_reraises == "raised"

\* What the except clause of generate_cover returns.
generate_cover_except == "False"

\* The recoverable degradations a fitted panel went through.
Degraded(r) ==
  (IF r.background = "solid" THEN {"blur"} ELSE {})
  \cup (IF r.path = "fallback" THEN {"fit"} ELSE {})

GetDimensions ==
  /\ pc = "start"
  /\ IF ~HasKeys(book_data, {"trim_size", "page_count"})
     THEN Fail("dims") /\ dims' = dims
     ELSE \E d \in {get_cover_dimensions(book_data.trim_size, book_data.page_count)} :
            /\ dims' = d
            /\ IF d.raised THEN Fail("dims")
               ELSE pc' = "pixels" /\ faulted' = faulted
  /\ UNCHANGED <<requestVars, spine, pixels, cover, pasted, trace, temp_file,
                 output, result, fitVars, textVars, upload>>

ConvertToPixels ==
  /\ pc = "pixels"
  /\ IF book_data.trim_size \notin DOMAIN TrimHundredths
     THEN Fail("pixels") /\ pixels' = pixels
     ELSE /\ pixels' = PixelGeometry(book_data.trim_size, dims)
          /\ pc' = "canvas" /\ faulted' = faulted
  /\ UNCHANGED <<requestVars, spine, dims, cover, pasted, trace, temp_file,
                 output, result, fitVars, textVars, upload>>

CreateCanvas(fails) ==
  /\ pc = "canvas"
  /\ IF fails
     THEN Fail("canvas") /\ UNCHANGED <<cover, trace>>
     ELSE /\ cover' = [size |-> <<pixels.width_px, pixels.height_px>>]
          /\ trace' = Append(trace, "init_canvas")
          /\ pc' = "back" /\ faulted' = faulted
  /\ UNCHANGED <<requestVars, spine, dims, pixels, pasted, temp_file, output,
                 result, fitVars, textVars, upload>>

PasteBack(f) ==
  /\ pc = "back"
  /\ IF ~back_image_path
     THEN pc' = "front" /\ UNCHANGED <<pasted, trace, faulted>>
     ELSE \E r \in {load_and_resize_image(back_image, pixels.cover_width_px,
                                            pixels.cover_height_px, f)} :
            IF r.raised
            THEN Fail("back_image") /\ UNCHANGED <<pasted, trace>>
            ELSE /\ pasted' = Append(pasted, [panel |-> "back",
                                              at    |-> <<pixels.back_x, pixels.back_y>>,
                                              image |-> r])
                 /\ trace' = Append(trace, "paste_back")
                 /\ faulted' = faulted \cup Degraded(r)
                 /\ pc' = "front"
  /\ UNCHANGED <<requestVars, spine, dims, pixels, cover, temp_file, output,
                 result, fitVars, textVars, upload>>

PasteFront(f) ==
  /\ pc = "front"
  /\ \E r \in {load_and_resize_image(front_image, pixels.cover_width_px,
                                       pixels.cover_height_px, f)} :
         IF r.raised
         THEN Fail("front_image") /\ UNCHANGED <<pasted, trace>>
         ELSE /\ pasted' = Append(pasted, [panel |-> "front",
                                           at    |-> <<pixels.front_x, pixels.front_y>>,
                                           image |-> r])
              /\ trace' = Append(trace, "paste_front")
              /\ faulted' = faulted \cup Degraded(r)
              /\ pc' = "front_text"
  /\ UNCHANGED <<requestVars, spine, dims, pixels, cover, temp_file, output,
                 result, fitVars, textVars, upload>>

\* A call of a text renderer from generate_cover: the step ran, and it is
\* recorded when the renderer met an exception.
TextStep(step, r, next) ==
  IF r = "raised"
  THEN Fail(step) /\ trace' = trace
  ELSE /\ trace' = Append(trace, step)
       /\ faulted' = (IF r = "swallowed" THEN faulted \cup {step} ELSE faulted)
       /\ pc' = next

FrontText(lib_fails) ==
  /\ pc = "front_text"
  /\ TextStep("front_text", add_front_cover_text(book_data, lib_fails), "back_text")
  /\ UNCHANGED <<requestVars, spine, dims, pixels, cover, pasted, temp_file,
                 output, result, fitVars, textVars, upload>>

BackText(lib_fails) ==
  /\ pc = "back_text"
  /\ IF /\ back_image_path
        /\ HasKeys(book_data, {"back_cover_text"})
        /\ ~IsBlank(book_data.back_cover_text)
     THEN TextStep("back_text", add_back_cover_text(book_data, lib_fails), "spine_text")
     ELSE pc' = "spine_text" /\ UNCHANGED <<trace, faulted>>
  /\ UNCHANGED <<requestVars, spine, dims, pixels, cover, pasted, temp_file,
                 output, result, fitVars, textVars, upload>>

SpineText(lib_fails) ==
  /\ pc = "spine_text"
  /\ IF ~HasKeys(book_data, {"spine_text"})
     THEN Fail("spine_key") /\ trace' = trace
     ELSE IF ~IsBlank(book_data.spine_text)
     THEN TextStep("spine_text", add_spine_text(book_data, lib_fails), "temp")
     ELSE pc' = "temp" /\ UNCHANGED <<trace, faulted>>
  /\ UNCHANGED <<requestVars, spine, dims, pixels, cover, pasted, temp_file,
                 output, result, fitVars, textVars, upload>>

\* NamedTemporaryFile(delete=False) and cover.save: how is "ok", "mktemp" (the
\* file cannot be created) or "save" (cover.save raises; the file stays).
SaveTemp(how) ==
  /\ pc = "temp"
  /\ temp_file' = (IF how = "mktemp" THEN "none" ELSE "exists")
  /\ IF how = "ok" THEN pc' = "pdf" /\ faulted' = faulted ELSE Fail("temp")
  /\ UNCHANGED <<requestVars, spine, dims, pixels, cover, pasted, trace, output,
                 result, fitVars, textVars, upload>>

ExportPdf(how) ==
  /\ pc = "pdf"
  /\ LET r == create_pdf(how)
     IN  /\ output' = r.output
         /\ IF r.raised THEN Fail("pdf") /\ trace' = trace
            ELSE pc' = "unlink" /\ trace' = Append(trace, "export") /\ faulted' = faulted
  /\ UNCHANGED <<requestVars, spine, dims, pixels, cover, pasted, temp_file,
                 result, fitVars, textVars, upload>>

\* os.unlink(temp_image_path), then return True.
UnlinkAndReturn(fails) ==
  /\ pc = "unlink"
  /\ IF fails
     THEN Fail("unlink") /\ UNCHANGED <<temp_file, result>>
     ELSE temp_file' = "deleted" /\ result' = "True" /\ pc' = "done"
          /\ faulted' = faulted
  /\ UNCHANGED <<requestVars, spine, dims, pixels, cover, pasted, trace, output,
                 fitVars, textVars, upload>>

Except ==
  /\ pc = "except"
  /\ result' = generate_cover_except
  /\ pc' = "done"
  /\ UNCHANGED <<requestVars, spine, dims, pixels, cover, pasted, trace, faulted,
                 temp_file, output, fitVars, textVars, upload>>

Next ==
  \/ GetDimensions
  \/ ConvertToPixels
  \/ \E fails \in BOOLEAN : CreateCanvas(fails)
  \/ \E f \in FaultSets : PasteBack(f)
  \/ \E f \in FaultSets : PasteFront(f)
  \/ \E lib_fails \in BOOLEAN : FrontText(lib_fails)
  \/ \E lib_fails \in BOOLEAN : BackText(lib_fails)
  \/ \E lib_fails \in BOOLEAN : SpineText(lib_fails)
  \/ \E how \in {"ok", "mktemp", "save"} : SaveTemp(how)
  \/ \E how \in PdfOutcomes : ExportPdf(how)
  \/ \E fails \in BOOLEAN : UnlinkAndReturn(fails)
  \/ Except

Spec == Init /\ [][Next]_vars

(***************************************************************************)
(* The geometry calculator called on its own.                              *)
(***************************************************************************)
NegPages == 3
MaxPages == 1000
SmallPages == 60
PageStep == 25
SpineStride == 97

SpineRange == (-NegPages)..MaxPages

DimPages ==
  {p \in SpineRange : p <= SmallPages \/ p % PageStep = 0}
  \cup {100, 200, 800, 1000}

InitGeom ==
  /\ \/ pc = "spine_call" /\ book_data \in [page_count : SpineRange]
     \/ pc = "dims_call" /\ book_data \in [trim_size : DOMAIN TrimHundredths \cup {"9x9"},
                       page_count : DimPages]
  /\ back_image_path = FALSE
  /\ front_image = <<1, 1>>
  /\ back_image = <<1, 1>>
  /\ IdleUpload /\ IdleGeometry /\ IdleCover /\ IdleFit /\ IdleText

\* A call of calculate_spine_width: the first on the page count of the
\* request, each later one on a larger page count.
SpineCall(p) ==
  /\ pc = "spine_call"
  /\ IF spine = Pending THEN p = book_data.page_count
     ELSE p \in {spine.page_count + 1, spine.page_count + SpineStride}
  /\ p \in SpineRange
  /\ spine' = [page_count |-> p, width |-> calculate_spine_width(p)]
  /\ book_data' = [page_count |-> p]
  /\ UNCHANGED <<pc, back_image_path, front_image, back_image, dims, pixels,
                 coverVars, fitVars, textVars, upload>>

DimsCall ==
  /\ pc = "dims_call"
  /\ \E d \in {get_cover_dimensions(book_data.trim_size, book_data.page_count)} :
       dims' = d /\ pc' = (IF d.raised THEN "done" ELSE "pixels_call")
  /\ UNCHANGED <<requestVars, spine, pixels, coverVars, fitVars, textVars, upload>>

PixelsCall ==
  /\ pc = "pixels_call"
  /\ pixels' = PixelGeometry(book_data.trim_size, dims)
  /\ pc' = "done"
  /\ UNCHANGED <<requestVars, spine, dims, coverVars, fitVars, textVars, upload>>

NextGeom ==
  \/ \E p \in SpineRange : SpineCall(p)
  \/ DimsCall
  \/ PixelsCall

SpecGeom == InitGeom /\ [][NextGeom]_vars

(***************************************************************************)
(* The panel fitter called on its own.                                     *)
(***************************************************************************)
MaxImg == 10
MaxTarget == 2

InitFit ==
  /\ pc = "fit_call"
  /\ img \in ((1..MaxImg) \X (1..MaxImg))
            \cup {<<11, 11>>, <<23, 23>>, <<42, 63>>, <<1500, 2000>>,
                  <<2000, 3000>>, <<1, 4000>>}
  /\ target \in ((1..MaxTarget) \X (1..MaxTarget))
               \cup {<<6, 9>>, <<13, 13>>, <<15, 15>>, <<1800, 2700>>}
  /\ faults \in FaultSets
  /\ fit = Pending
  /\ book_data = [page_count |-> 1]
  /\ back_image_path = FALSE
  /\ front_image = <<1, 1>>
  /\ back_image = <<1, 1>>
  /\ IdleUpload /\ IdleGeometry /\ IdleCover /\ IdleText

FitCall ==
  /\ pc = "fit_call"
  /\ fit' = load_and_resize_image(img, target[1], target[2], faults)
  /\ pc' = "done"
  /\ UNCHANGED <<requestVars, spine, dims, pixels, coverVars, img, target, faults,
                 textVars, upload>>

NextFit == FitCall

SpecFit == InitFit /\ [][NextFit]_vars

(***************************************************************************)
(* Text wrapping.  Here a text is the sequence of its characters, a word   *)
(* or a line a sequence of characters too, and the width draw.textbbox     *)
(* measures is the sum of the widths of the characters.                    *)
(***************************************************************************)
\* The length of the word s begins with, for s[1] not whitespace.
WordEnd(s) ==
  CHOOSE n \in 1..Len(s) :
    /\ \A i \in 1..n : ~IsSpace(s[i])
    /\ (n = Len(s) \/ IsSpace(s[n + 1]))

\* str.split(): the maximal runs of characters that are not whitespace.
RECURSIVE Split(_)
Split(s) ==
  IF s = <<>> THEN <<>>
  ELSE IF IsSpace(s[1]) THEN Split(Tail(s))
  ELSE The({<<SubSeq(s, 1, n)>> \o Split(SubSeq(s, n + 1, Len(s))) :
            n \in {WordEnd(s)}})

\* str.split('\n'): the pieces between the newlines, the empty ones too.
RECURSIVE SplitLines(_)
SplitLines(s) ==
  IF \A i \in 1..Len(s) : s[i] # "\n" THEN <<s>>
  ELSE The({<<SubSeq(s, 1, n - 1)>> \o SplitLines(SubSeq(s, n + 1, Len(s))) :
            n \in {CHOOSE i \in 1..Len(s) :
                     s[i] = "\n" /\ \A j \in 1..(i - 1) : s[j] # "\n"}})

\* ' '.join(words).
RECURSIVE Join(_)
Join(words) ==
  IF words = <<>> THEN <<>>
  ELSE IF Len(words) = 1 THEN words[1]
  ELSE words[1] \o <<" ">> \o Join(Tail(words))

GlyphWidth(c) == IF c = "W" THEN 2 ELSE 1

\* bbox[2] - bbox[0] of draw.textbbox((0, 0), line, font=font).
RECURSIVE TextWidth(_)
TextWidth(line) ==
  IF line = <<>> THEN 0 ELSE GlyphWidth(line[1]) + TextWidth(Tail(line))

\* A wrapping step that starts the new line without the word that did not fit.
WrapStep_word_lost(w, word, max_width) ==
  IF TextWidth(Join(Append(w.current_line, word))) <= max_width
     \/ w.current_line = <<>>
  THEN [w EXCEPT !.current_line = Append(@, word)]
  ELSE [w EXCEPT !.lines = Append(@, Join(w.current_line)),
                 !.current_line = <<>>]

\* A wrapping step that closes the line whenever the word does not fit, even
\* when the line has no word yet.
WrapStep_fit_only(w, word, max_width) ==
  IF TextWidth(Join(Append(w.current_line, word))) <= max_width
  THEN [w EXCEPT !.current_line = Append(@, word)]
  ELSE [w EXCEPT !.lines = Append(@, Join(w.current_line)),
                 !.current_line = <<word>>]

\* One turn of the wrapping loop, on the next word, for the loop state w.
WrapStep(w, word, max_width) ==
  IF TextWidth(Join(Append(w.current_line, word))) <= max_width
     \/ w.current_line = <<>>
  THEN [w EXCEPT !.current_line = Append(@, word)]
  ELSE [w EXCEPT !.lines = Append(@, Join(w.current_line)),
                 !.current_line = <<word>>]

\* After the loop: the line being built, if any, is the last line.
WrapFlush(w) ==
  IF w.current_line # <<>>
  THEN [w EXCEPT !.lines = Append(@, Join(w.current_line))]
  ELSE w

\* The whole loop, from the loop state w on.
RECURSIVE WrapLoop(_, _, _)
WrapLoop(w, words, max_width) ==
  IF words = <<>> THEN WrapFlush(w).lines
  ELSE WrapLoop(WrapStep(w, words[1], max_width), Tail(words), max_width)

\* The lines draw_text_with_effects draws for a text: none for a blank text,
\* the text itself when max_width is None or 0.
EffectsLines(text, max_width) ==
  IF ~HasText(text) THEN <<>>
  ELSE IF max_width # 0
  THEN WrapLoop([current_line |-> <<>>, lines |-> <<>>], Split(text), max_width)
  ELSE <<text>>

\* The drawing loop of add_back_cover_text: every line that is not blank goes
\* through draw_text_with_effects with max_width = text_width.
RECURSIVE BackDrawn(_, _)
BackDrawn(all_lines, text_width) ==
  IF all_lines = <<>> THEN <<>>
  ELSE EffectsLines(all_lines[1], text_width)
       \o BackDrawn(Tail(all_lines), text_width)

MaxText == 5
MaxWidth == 5

Texts == UNION {[1..n -> {"a", "W", " ", "\r", "\n"}] : n \in 0..MaxText}

NewWrap(call, text, max_width) ==
  [call |-> call, text |-> text, max_width |-> max_width, paragraphs |-> <<>>,
   words |-> <<>>, current_line |-> <<>>, lines |-> <<>>,
   all_lines |-> <<>>, drawn |-> <<>>]

InitWrap ==
  /\ wrap \in {NewWrap(c, t, m) :
                 c \in {"effects", "back"}, t \in Texts, m \in 0..MaxWidth}
  /\ pc = IF wrap.call = "effects" THEN "effects_call" ELSE "back_call"
  /\ draws = <<>> /\ region = Pending
  /\ book_data = [page_count |-> 1]
  /\ back_image_path = FALSE
  /\ front_image = <<1, 1>>
  /\ back_image = <<1, 1>>
  /\ IdleUpload /\ IdleGeometry /\ IdleCover /\ IdleFit

wrapRest ==
  <<requestVars, spine, dims, pixels, coverVars, fitVars, draws, region,
    upload>>

\* draw_text_with_effects, down to the start of the wrapping loop.
EffectsStart ==
  /\ pc = "effects_call"
  /\ IF ~HasText(wrap.text)
     THEN pc' = "done" /\ wrap' = wrap
     ELSE IF wrap.max_width # 0
     THEN pc' = "effects_loop" /\ wrap' = [wrap EXCEPT !.words = Split(wrap.text)]
     ELSE pc' = "done" /\ wrap' = [wrap EXCEPT !.lines = <<wrap.text>>,
                                               !.drawn = <<wrap.text>>]
  /\ UNCHANGED wrapRest

EffectsWord ==
  /\ pc = "effects_loop" /\ wrap.words # <<>>
  /\ wrap' = [WrapStep(wrap, wrap.words[1], wrap.max_width)
                EXCEPT !.words = Tail(wrap.words)]
  /\ UNCHANGED <<pc, wrapRest>>

EffectsEnd ==
  /\ pc = "effects_loop" /\ wrap.words = <<>>
  /\ wrap' = [WrapFlush(wrap) EXCEPT !.drawn = WrapFlush(wrap).lines]
  /\ pc' = "done"
  /\ UNCHANGED wrapRest

\* add_back_cover_text, down to the loop over the paragraphs; the width of
\* the text area is wrap.max_width.
BackStart ==
  /\ pc = "back_call"
  /\ IF ~HasText(wrap.text)
     THEN pc' = "done" /\ wrap' = wrap
     ELSE /\ pc' = "back_paragraphs"
          /\ wrap' = [wrap EXCEPT !.paragraphs = SplitLines(Strip(wrap.text))]
  /\ UNCHANGED wrapRest

BackParagraph ==
  /\ pc = "back_paragraphs" /\ wrap.paragraphs # <<>>
  /\ IF HasText(wrap.paragraphs[1])
     THEN /\ pc' = "back_loop"
          /\ wrap' = [wrap EXCEPT !.words = Split(wrap.paragraphs[1]),
                                  !.lines = <<>>, !.current_line = <<>>]
     ELSE /\ pc' = pc
          /\ wrap' = [wrap EXCEPT !.paragraphs = Tail(@)]
  /\ UNCHANGED wrapRest

BackWord ==
  /\ pc = "back_loop" /\ wrap.words # <<>>
  /\ wrap' = [WrapStep(wrap, wrap.words[1], wrap.max_width)
                EXCEPT !.words = Tail(wrap.words)]
  /\ UNCHANGED <<pc, wrapRest>>

\* The paragraph's lines, then a blank line, go to all_lines.
BackParagraphEnd ==
  /\ pc = "back_loop" /\ wrap.words = <<>>
  /\ wrap' = [WrapFlush(wrap) EXCEPT
                !.all_lines = @ \o WrapFlush(wrap).lines \o << <<>> >>,
                !.paragraphs = Tail(@)]
  /\ pc' = "back_paragraphs"
  /\ UNCHANGED wrapRest

\* The trailing blank line is removed and the lines are drawn.
BackEnd ==
  /\ pc = "back_paragraphs" /\ wrap.paragraphs = <<>>
  /\ \E kept \in {IF wrap.all_lines # <<>>
                     /\ wrap.all_lines[Len(wrap.all_lines)] = <<>>
                  THEN SubSeq(wrap.all_lines, 1, Len(wrap.all_lines) - 1)
                  ELSE wrap.all_lines} :
       wrap' = [wrap EXCEPT !.all_lines = kept,
                            !.drawn = BackDrawn(kept, wrap.max_width)]
  /\ pc' = "done"
  /\ UNCHANGED wrapRest

NextWrap ==
  \/ EffectsStart
  \/ EffectsWord
  \/ EffectsEnd
  \/ BackStart
  \/ BackParagraph
  \/ BackWord
  \/ BackParagraphEnd
  \/ BackEnd

SpecWrap == InitWrap /\ [][NextWrap]_vars

(***************************************************************************)
(* The text renderers called on a panel.  draws holds the calls of         *)
(* draw_text_centered made by add_front_cover_text, and the buffer         *)
(* add_spine_text pastes on the canvas.  Texts are sequences of            *)
(* characters.                                                             *)
(***************************************************************************)
\* The outline and shadow colours draw_text_with_effects picks for a fill.
contrast_colors(fill_rgb) ==
  IF FLt(FInt(128), FDiv(FInt(fill_rgb[1] + fill_rgb[2] + fill_rgb[3]), FInt(3)))
  THEN [outline_color |-> <<0, 0, 0>>, shadow_color |-> <<0, 0, 0, 180>>]
  ELSE [outline_color |-> <<255, 255, 255>>,
        shadow_color |-> <<255, 255, 255, 180>>]

\* The outline and shadow colours add_spine_text draws with.
spine_colors(fill_rgb) ==
  [outline_color |-> <<0, 0, 0>>, shadow_color |-> <<0, 0, 0, 180>>]

\* A call of draw_text_centered; lines are the lines draw_text_with_effects
\* draws for it, none when the text is blank.
draw_text_centered(what, text, position, font_size, fill, max_width) ==
  [what |-> what, text |-> text, position |-> position,
   font_size |-> font_size, fill |-> fill, max_width |-> max_width,
   outline_color |-> contrast_colors(fill).outline_color,
   shadow_color |-> contrast_colors(fill).shadow_color,
   lines |-> EffectsLines(text, max_width)]

Max(a, b) == IF b > a THEN b ELSE a
Min(a, b) == IF b < a THEN b ELSE a

\* A front cover text whose subtitle is drawn whenever it is not the empty
\* string.
front_cover_calls_nonempty(bd, x, y, width, height, title_height) ==
  The({<<draw_text_centered("title", bd.title, <<x + width \div 2, title_y>>,
                            bd.title_font_size, color_rgb, wide)>>
       \o (IF bd.subtitle # <<>>
           THEN <<draw_text_centered("subtitle", bd.subtitle,
                    <<x + width \div 2, title_y + title_height + 20>>,
                    Max(bd.title_font_size \div 2, 16), color_rgb, wide)>>
           ELSE <<>>)
       \o <<draw_text_centered("author", <<"b", "y", " ">> \o bd.author,
                               <<x + width \div 2, y + height - height \div 6>>,
                               Max(bd.author_font_size, 20), color_rgb,
                               FTrunc(FMul(FInt(width), FQuot(8, 10))))>> :
       color_rgb \in {ParseColor(bd.text_color).rgb},
       title_y \in {y + (height \div 3) \div 2},
       wide \in {FTrunc(FMul(FInt(width), FQuot(9, 10)))}})

\* The calls of draw_text_centered add_front_cover_text makes when nothing
\* raises; title_height is the height draw.textbbox measures for the title.
front_cover_calls(bd, x, y, width, height, title_height) ==
  The({<<draw_text_centered("title", bd.title, <<x + width \div 2, title_y>>,
                            bd.title_font_size, color_rgb, wide)>>
       \o (IF HasText(bd.subtitle)
           THEN <<draw_text_centered("subtitle", bd.subtitle,
                    <<x + width \div 2, title_y + title_height + 20>>,
                    Max(bd.title_font_size \div 2, 16), color_rgb, wide)>>
           ELSE <<>>)
       \o <<draw_text_centered("author", <<"b", "y", " ">> \o bd.author,
                               <<x + width \div 2, y + height - height \div 6>>,
                               Max(bd.author_font_size, 20), color_rgb,
                               FTrunc(FMul(FInt(width), FQuot(8, 10))))>> :
       color_rgb \in {ParseColor(bd.text_color).rgb},
       title_y \in {y + (height \div 3) \div 2},
       wide \in {FTrunc(FMul(FInt(width), FQuot(9, 10)))}})

\* Image.rotate(90) without expand: the image keeps its size.
ImgRotate90_no_expand(size) == size

\* Image.rotate(90, expand=True): a transposition, the sides change places.
ImgRotate90(size) == <<size[2], size[1]>>

\* The buffer add_spine_text draws the text in, rotates, scales down and
\* pastes: Raised when the resize raises, else the rectangle pasted.
spine_buffer(bd, x, y, width, height) ==
  The({The({IF resized.raised THEN Raised
            ELSE [raised |-> FALSE, what |-> "spine", text |-> Strip(bd.spine_text),
                  font_size |-> Max(Min(FTrunc(FMul(FInt(width), FQuot(7, 10))),
                                        24), 10),
                  fill |-> ParseColor(bd.text_color).rgb,
                  outline_color |->
                    spine_colors(ParseColor(bd.text_color).rgb).outline_color,
                  shadow_color |->
                    spine_colors(ParseColor(bd.text_color).rgb).shadow_color,
                  size |-> resized.size,
                  paste |-> <<x + width \div 2 - resized.size[1] \div 2,
                              y + height \div 2 - resized.size[2] \div 2>>] :
            resized \in {ImgResize(<<rotated[1] \div 3, rotated[2] \div 3>>, {})}}) :
       rotated \in {ImgRotate90(<<height * 3, width * 3>>)}})

MinSpinePx == 18
MaxSpinePx == 600

TextData(subtitle, spine_text, color) ==
  [title            |-> <<"T">>,
   subtitle         |-> subtitle,
   author           |-> <<"A">>,
   spine_text       |-> spine_text,
   title_font_size  |-> 48,
   author_font_size |-> 24,
   text_color       |-> color]

\* The colours of the requests: white, black, the two greys on either side
\* of the brightness threshold, a colour name, and colours int(x, 16) parses
\* although they are not six upper-case digits (lower case, mixed case
\* without the "#", slices with a sign or a blank, digits of other scripts).
TextColors ==
  {White, Black, BadColor, LowerWhite,
   <<"#", "8", "0", "8", "0", "8", "0">>,
   <<"#", "8", "1", "8", "1", "8", "1">>,
   <<"A", "b", "C", "d", "E", "f">>,
   <<"#", "-", "1", " ", "F", "+", "8">>,
   <<"#", "\\u0661", "\\u0662", "\\u0663", "4", "\\uff15", "f">>}

FrontRequests ==
  {TextData(sub, <<"S">>, c) :
     sub \in {<<>>, <<" ">>, <<"\t", "\r", "\n">>, <<"S", "\t", "b">>},
     c \in TextColors}

SpineRequests ==
  {TextData(<<>>, sp, c) : sp \in {<<>>, <<"\t", "S", " ", "S", "\n">>}, c \in TextColors}

TitleHeights == {0, 35, 60}

FrontRegions ==
  {[x |-> x, y |-> y, width |-> w, height |-> h] :
     x \in {0, 1912}, y \in {0, 37},
     w \in {1, 10, 1800, 2475}, h \in {1, 5, 2700, 2775}}

SpineRegions ==
  {[x |-> p[1], y |-> p[2], width |-> w, height |-> h] :
     p \in {<<0, 0>>, <<1837, 37>>},
     w \in MinSpinePx..MaxSpinePx, h \in {0, 1, 17, 2775}}

InitText ==
  /\ pc \in {"front_text_call", "spine_text_call"}
  /\ book_data \in (IF pc = "front_text_call" THEN FrontRequests
                    ELSE SpineRequests)
  /\ region \in (IF pc = "front_text_call" THEN FrontRegions ELSE SpineRegions)
  /\ wrap = Pending /\ draws = <<>>
  /\ back_image_path = FALSE
  /\ front_image = <<1, 1>>
  /\ back_image = <<1, 1>>
  /\ IdleUpload /\ IdleGeometry /\ IdleCover /\ IdleFit

textRest ==
  <<requestVars, spine, dims, pixels, cover, pasted, temp_file, output, result,
    fitVars, wrap, region, upload>>

\* add_front_cover_text on the region; fail_at = k > 0: the k-th call of
\* draw_text_centered raises, and the except clause logs it.
FrontTextCall ==
  /\ pc = "front_text_call"
  /\ IF add_front_cover_text(book_data, FALSE) = "swallowed"
     THEN draws' = draws /\ faulted' = {"front_text"}
     ELSE \E calls \in {front_cover_calls(book_data, region.x, region.y,
                                           region.width, region.height, th) :
                          th \in TitleHeights} :
            \E fail_at \in 0..Len(calls) :
              /\ draws' = (IF fail_at = 0 THEN calls
                           ELSE SubSeq(calls, 1, fail_at - 1))
              /\ faulted' = (IF add_front_cover_text(book_data, fail_at # 0)
                                  = "swallowed"
                             THEN {"front_text"} ELSE {})
  /\ trace' = <<"front_text">>
  /\ pc' = "done"
  /\ UNCHANGED textRest

\* add_spine_text on the region.
SpineTextCall(lib_fails) ==
  /\ pc = "spine_text_call"
  /\ IF add_spine_text(book_data, lib_fails) = "drawn"
     THEN \E buffer \in {spine_buffer(book_data, region.x, region.y,
                                      region.width, region.height)} :
            IF buffer.raised
            THEN draws' = draws /\ faulted' = {"spine_text"}
            ELSE draws' = <<buffer>> /\ faulted' = faulted
     ELSE /\ draws' = draws
          /\ faulted' = (IF add_spine_text(book_data, lib_fails) = "swallowed"
                         THEN {"spine_text"} ELSE {})
  /\ trace' = <<"spine_text">>
  /\ pc' = "done"
  /\ UNCHANGED textRest

NextText ==
  \/ FrontTextCall
  \/ \E lib_fails \in BOOLEAN : SpineTextCall(lib_fails)

SpecText == InitText /\ [][NextText]_vars

(***************************************************************************)
(* The POST handler index (src/main.py).  upload.files tells, for the      *)
(* front and the back upload, whether its file is in the upload folder:    *)
(* "none", "exists" or "removed".  upload.paths holds the uploads whose    *)
(* path variable is not None.  request.unremovable holds the uploads on    *)
(* whose file os.remove raises.                                            *)
(***************************************************************************)
ALLOWED_EXTENSIONS == {"png", "jpg", "jpeg", "gif", "bmp", "tiff"}

Filenames == {"", "a.png", "a.PNG", "a.exe", "png"}

\* filename.rsplit('.', 1)[1].lower(), for a filename with a dot.
ExtensionOf(filename) ==
  CASE filename = "a.png" -> "png"
    [] filename = "a.PNG" -> "png"
    [] filename = "a.exe" -> "exe"

allowed_file(filename) ==
  filename \in {"a.png", "a.PNG", "a.exe"}
  /\ ExtensionOf(filename) \in ALLOWED_EXTENSIONS

\* A cleanup that removes the first file of the list only.
cleanup_files_first_only(files, paths, unremovable) ==
  [f \in {"front", "back"} |->
     IF f = "front" /\ f \in paths /\ files[f] = "exists" /\ f \notin unremovable
     THEN "removed" ELSE files[f]]

\* cleanup_files([front_file_path, back_file_path]): each path that is not
\* None and exists is removed; an exception of os.remove is logged.
cleanup_files(files, paths, unremovable) ==
  [f \in {"front", "back"} |->
     IF f \in paths /\ files[f] = "exists" /\ f \notin unremovable
     THEN "removed" ELSE files[f]]

UploadRequests ==
  [size         : {"ok", "too_large"},
   content_type : {"multipart", "other"},
   parse        : {"ok", "error"},
   front        : {"absent"} \cup Filenames,
   back         : {"absent"} \cup Filenames,
   form         : {"ok", "bad_number", "no_title"},
   unremovable  : SUBSET {"front", "back"}]

InitUpload ==
  /\ pc = "post"
  /\ upload \in {[request |-> r,
                  files |-> [f \in {"front", "back"} |-> "none"],
                  paths |-> {},
                  success |-> "none",
                  response |-> "none"] : r \in UploadRequests}
  /\ book_data = [page_count |-> 1]
  /\ back_image_path = FALSE
  /\ front_image = <<1, 1>>
  /\ back_image = <<1, 1>>
  /\ IdleGeometry /\ IdleCover /\ IdleFit /\ IdleText

uploadRest ==
  <<requestVars, spine, dims, pixels, coverVars, fitVars, textVars>>

Respond(response) ==
  /\ upload' = [upload EXCEPT !.response = response]
  /\ pc' = "done"

\* Lines 59-100: the checks made before any file is saved.
ValidateRequest ==
  /\ pc = "post"
  /\ IF \/ upload.request.size = "too_large"
        \/ upload.request.content_type # "multipart"
        \/ upload.request.parse = "error"
        \/ upload.request.front \in {"absent", ""}
        \/ ~allowed_file(upload.request.front)
     THEN Respond("redirect")
     ELSE pc' = "save_front" /\ upload' = upload
  /\ UNCHANGED uploadRest

\* Lines 103-106: front_file_path is set, then front_file.save(...): how is
\* "ok", "unwritten" (save raises before it creates the file) or "partial"
\* (save raises after it created the file).
SaveFront(how) ==
  /\ pc = "save_front"
  /\ upload' = [upload EXCEPT
                  !.paths = @ \cup {"front"},
                  !.files["front"] = IF how = "unwritten" THEN "none"
                                     ELSE "exists"]
  /\ pc' = (IF how = "ok" THEN "back_upload" ELSE "handler_except")
  /\ UNCHANGED uploadRest

\* Lines 109-117: no back upload, or one of a type that is not allowed: the
\* front file is removed and the handler returns; os.remove may raise.
BackUpload ==
  /\ pc = "back_upload"
  /\ IF upload.request.back \in {"absent", ""}
     THEN pc' = "form" /\ upload' = upload
     ELSE IF allowed_file(upload.request.back)
     THEN pc' = "save_back" /\ upload' = upload
     ELSE IF upload.files["front"] = "exists"
             /\ "front" \in upload.request.unremovable
     THEN pc' = "handler_except" /\ upload' = upload
     ELSE /\ pc' = "done"
          /\ upload' = [upload EXCEPT
                          !.files["front"] = IF @ = "exists" THEN "removed"
                                             ELSE @,
                          !.response = "redirect"]
  /\ UNCHANGED uploadRest

\* Lines 120-123: back_file_path is set, then back_file.save(...).
SaveBack(how) ==
  /\ pc = "save_back"
  /\ upload' = [upload EXCEPT
                  !.paths = @ \cup {"back"},
                  !.files["back"] = IF how = "unwritten" THEN "none"
                                    ELSE "exists"]
  /\ pc' = (IF how = "ok" THEN "form" ELSE "handler_except")
  /\ UNCHANGED uploadRest

\* Lines 126-150: the form is read; a number that does not parse, or a
\* missing title or author, cleans up and returns.
ReadForm ==
  /\ pc = "form"
  /\ IF upload.request.form = "ok"
     THEN pc' = "generate" /\ upload' = upload
     ELSE /\ pc' = "done"
          /\ upload' = [upload EXCEPT
                          !.files = cleanup_files(upload.files, upload.paths,
                                                  upload.request.unremovable),
                          !.response = "redirect"]
  /\ UNCHANGED uploadRest

\* Lines 153-162: generate_cover returns True or False; "raised": an
\* exception of the lines around the call.
Generate(success) ==
  /\ pc = "generate"
  /\ upload' = [upload EXCEPT !.success = success]
  /\ pc' = (IF success = "raised" THEN "handler_except" ELSE "respond")
  /\ UNCHANGED uploadRest

\* Lines 165-172: the uploads are cleaned up, then the document is sent or
\* the handler redirects; send_file may raise.
CleanupAndRespond(send_fails) ==
  /\ pc = "respond"
  /\ upload' = [upload EXCEPT
                  !.files = cleanup_files(upload.files, upload.paths,
                                          upload.request.unremovable),
                  !.response = IF upload.success = "False" THEN "redirect"
                               ELSE IF send_fails THEN "none"
                               ELSE "send_file"]
  /\ pc' = (IF upload.success = "True" /\ send_fails THEN "handler_except"
            ELSE "done")
  /\ UNCHANGED uploadRest

\* Lines 174-180: the except clause of the handler.
HandlerExcept ==
  /\ pc = "handler_except"
  /\ upload' = [upload EXCEPT
                  !.files = cleanup_files(upload.files, upload.paths,
                                          upload.request.unremovable),
                  !.response = "redirect"]
  /\ pc' = "done"
  /\ UNCHANGED uploadRest

NextUpload ==
  \/ ValidateRequest
  \/ \E how \in {"ok", "unwritten", "partial"} : SaveFront(how)
  \/ BackUpload
  \/ \E how \in {"ok", "unwritten", "partial"} : SaveBack(how)
  \/ ReadForm
  \/ \E success \in {"True", "False", "raised"} : Generate(success)
  \/ \E send_fails \in BOOLEAN : CleanupAndRespond(send_fails)
  \/ HandlerExcept

SpecUpload == InitUpload /\ [][NextUpload]_vars

(***************************************************************************)
(* The properties checked.                                                 *)
(***************************************************************************)

\* A float f >= 0 is within 2^-40 of num / den, for naturals num and den > 0:
\* with k digits after the binary point of f, |f * 2^k * den - num * 2^k|
\* * 2^40 <= den * 2^k.
FNear(f, num, den) ==
  The({The({BCmp(BShl(IF BCmp(left, right) >= 0 THEN BSub(left, right)
                      ELSE BSub(right, left), 40),
                 BShl(BFromInt(den), k)) <= 0 :
            left  \in {BMul(BShl(f.m, f.e + k), BFromInt(den))},
            right \in {BShl(BFromInt(num), k)}}) :
       k \in {IF f.e < 0 THEN -f.e ELSE 0}})

Returned == fit # Pending /\ ~fit.raised

\* C1: whenever load_and_resize_image returns, for any image size (1xN and
\* Nx1 included) and any target, the raster it returns has exactly the target
\* size, and it came from the crop, the background or the fallback path.
C1_FitReturnsTargetSize ==
  Returned =>
    /\ fit.size = target
    /\ fit.path \in {"crop", "background", "fallback"}

\* C1, reached: a 1xN image taken through the fallback path with no fault
\* injected, and returned.
C1_Witness ==
  /\ Returned /\ faults = {}
  /\ img[1] = 1 /\ img[2] > 1
  /\ fit.path = "fallback"

HaveDims == dims # Pending /\ ~dims.raised

\* C2, as the specification states it: for every catalog trim and every page
\* count the two panels, the spine and the two bleeds make up the canvas width
\* exactly, so that the back panel ends where the spine begins and the spine
\* ends where the front panel begins.
C2_PanelsFillCanvas ==
  pixels # Pending =>
    /\ 2 * pixels.cover_width_px + pixels.spine_width_px + 2 * pixels.bleed_px
         = pixels.width_px
    /\ pixels.back_x + pixels.cover_width_px = pixels.spine_x
    /\ pixels.spine_x + pixels.spine_width_px = pixels.front_x

\* C2, reached: trim 6x9 with 200 pages leaves one pixel between the back
\* panel and the spine.
C2_Witness ==
  /\ pixels # Pending
  /\ book_data.trim_size = "6x9" /\ book_data.page_count = 200
  /\ pixels.spine_x - (pixels.back_x + pixels.cover_width_px) = 1

\* C3: for every catalog trim and every page count, get_cover_dimensions
\* returns total_width = 2 * panel_width + spine_width + 2 * 0.125 and
\* total_height = panel_height + 2 * 0.125 inches (compared, in 40000ths of an
\* inch, with the exact sums), spine_width being what calculate_spine_width
\* returns; both totals are strictly larger than the two panels alone.
C3_TotalsAreSums ==
  HaveDims =>
    LET t == TrimHundredths[book_data.trim_size]
        p == book_data.page_count
    IN  /\ dims.spine_width = calculate_spine_width(p)
        /\ FNear(dims.total_width,
                 800 * t[1] + (IF 50 * p > 2400 THEN 50 * p ELSE 2400) + 10000,
                 40000)
        /\ FNear(dims.total_height, 400 * t[2] + 10000, 40000)
        /\ FLt(FMul(TRIM_SIZES(book_data.trim_size)[1], FInt(2)), dims.total_width)
        /\ FLt(TRIM_SIZES(book_data.trim_size)[2], dims.total_height)

\* C3, reached: the dimensions of trim 8.5x11 with 1000 pages.
C3_Witness ==
  /\ HaveDims /\ pc = "pixels_call"
  /\ book_data.trim_size = "8.5x11" /\ book_data.page_count = 1000

\* The result of a call of calculate_spine_width on p pages.
SpineResult ==
  spine # Pending =>
    LET p == spine.page_count
    IN  /\ FLe(FQuot(6, 100), spine.width)
        /\ spine.width = (IF p > 48
                          THEN FMul(FQuot(p, 2), FQuot(25, 10000))
                          ELSE FQuot(6, 100))
        /\ FNear(spine.width, IF 5 * p > 240 THEN 5 * p ELSE 240, 4000)
        /\ (p = 1 => spine.width = FQuot(6, 100))
        /\ (p = 800 => spine.width = FInt(1))

\* A later call on more pages returns no smaller a width.
SpineMonotone ==
  (spine # Pending /\ spine' # Pending /\ spine.page_count <= spine'.page_count)
    => FLe(spine.width, spine'.width)

\* C4: calculate_spine_width(p) is max(p/2 * 0.0025, 0.06) inches for every
\* page count p, p <= 0 included; it is never below 0.06; it never decreases
\* as p grows; spine(1) = 0.06 and spine(800) = 1.0.
C4_SpineWidth == [](SpineResult) /\ [][SpineMonotone]_vars

\* C4, reached: a call on 800 pages, which returned exactly 1.0.
C4_Witness ==
  /\ spine # Pending /\ spine.page_count = 800
  /\ book_data.page_count = 800 /\ spine.width = FInt(1)

SixByNine200 ==
  /\ HasKeys(book_data, {"trim_size", "page_count"})
  /\ book_data.trim_size = "6x9" /\ book_data.page_count = 200

\* C5, amended: for trim 6x9 and 200 pages the spine is 0.25in, the spread is
\* 12.5in x 9.25in, and the canvas generate_cover creates at 300 DPI is
\* 3750 x 2775 px.
C5_SixByNineSpread ==
  SixByNine200 =>
    /\ HaveDims => /\ dims.spine_width = FQuot(1, 4)
                   /\ dims.total_width = FQuot(25, 2)
                   /\ dims.total_height = FQuot(37, 4)
    /\ cover # Pending => cover.size = <<3750, 2775>>

\* C5, reached: the canvas of a 6x9 cover of 200 pages is created.
C5_Witness == SixByNine200 /\ HaveDims /\ cover # Pending /\ pc = "back"

\* C5, as the specification states it: for trim 6x9 and 200 pages the spine
\* is 0.25in, the spread is 12.375in x 9.25in, and the canvas is 3712 x 2775
\* px, within one pixel.
C5_AsStated ==
  SixByNine200 =>
    /\ HaveDims => /\ dims.spine_width = FQuot(1, 4)
                   /\ FNear(dims.total_width, 12375, 1000)
                   /\ FNear(dims.total_height, 925, 100)
    /\ cover # Pending => /\ cover.size[1] \in 3711..3713
                          /\ cover.size[2] \in 2774..2776

UnknownTrim ==
  /\ HasKeys(book_data, {"trim_size", "page_count"})
  /\ book_data.trim_size \notin DOMAIN TrimHundredths

\* C6: for a trim name that is no key of TRIM_SIZES, get_cover_dimensions
\* raises and returns no dimensions; generate_cover called with it creates no
\* canvas, no temporary file and no output document, and returns False.
C6_UnknownTrimAborts ==
  UnknownTrim =>
    /\ get_cover_dimensions(book_data.trim_size, book_data.page_count) = Raised
    /\ dims \in {Pending, Raised}
    /\ pixels = Pending /\ cover = Pending /\ pasted = <<>>
    /\ temp_file = "none" /\ output = "none"
    /\ pc \in {"start", "except", "done"}
    /\ result \in {"running", "False"}
    /\ (pc = "done" => result = "False")

\* C6, reached: a call with the trim name 9x9 has returned.
C6_Witness ==
  /\ UnknownTrim /\ pc = "done"
  /\ dims = Raised /\ faulted = {"dims"} /\ result = "False"

\* C7, as the specification states it: in every final state of a call of
\* generate_cover, the temporary PNG the call created no longer exists.
C7_TempFileDeleted == pc = "done" => temp_file # "exists"

\* C7, reached: create_pdf raised, the call returned False, and its
\* temporary file is still there.
C7_Witness ==
  /\ pc = "done" /\ result = "False"
  /\ "pdf" \in faulted /\ temp_file = "exists"

\* C8, as the specification states it: whenever create_pdf fails,
\* generate_cover returns False and no file, complete or partial, is at
\* output_path.
C8_FailedExportLeavesNothing ==
  (pc = "done" /\ "pdf" \in faulted) => (result = "False" /\ output = "none")

\* C8, reached: save failed after it created the file; the call returned
\* False and a partial file is at output_path.
C8_Witness ==
  /\ pc = "done" /\ result = "False"
  /\ "pdf" \in faulted /\ output = "partial"

\* C9: no exception of an internal step leaves generate_cover: whatever
\* fails, the call goes on until it returns, it returns True or False, and it
\* returns True only if create_pdf completed without an error.
C9_NoExceptionEscapes ==
  /\ result \in {"running", "True", "False"}
  /\ (pc = "done") = (result # "running")
  /\ (pc # "done" => ENABLED Next)
  /\ (result = "True" =>
        /\ output = "complete" /\ "pdf" \notin faulted
        /\ trace # <<>> /\ trace[Len(trace)] = "export")

\* C9, reached: a request without the key spine_text has returned False.
C9_Witness ==
  /\ pc = "done" /\ result = "False"
  /\ ~HasKeys(book_data, {"spine_text"}) /\ "spine_key" \in faulted

\* The failures generate_cover recovers from.
Recoverable == {"blur", "front_text", "back_text", "spine_text"}

\* C10: a failure of the blur in create_blurred_background, or inside
\* add_front_cover_text, add_back_cover_text or add_spine_text, never aborts
\* the call: with no other failure, generate_cover never enters its except
\* clause, runs the remaining steps to the export and returns True.
C10_RecoverableFailuresDoNotAbort ==
  faulted \subseteq Recoverable =>
    /\ pc # "except"
    /\ (pc = "done" =>
          /\ result = "True" /\ output = "complete"
          /\ trace[Len(trace)] = "export"
          /\ \E i \in 1..Len(trace) : trace[i] = "front_text")

\* C10, reached: the blur and the three text renderers all failed in one
\* call, which returned True.
C10_Witness ==
  /\ pc = "done" /\ result = "True"
  /\ faulted = Recoverable
\* The words of the lines, in line order.
RECURSIVE WordsOf(_)
WordsOf(lines) ==
  IF lines = <<>> THEN <<>> ELSE Split(lines[1]) \o WordsOf(Tail(lines))

\* The words of the paragraphs, in order.
RECURSIVE ParagraphWords(_)
ParagraphWords(paragraphs) ==
  IF paragraphs = <<>> THEN <<>>
  ELSE Split(paragraphs[1]) \o ParagraphWords(Tail(paragraphs))

\* C11: wrapping never drops, duplicates or reorders words.  In the loop of
\* draw_text_with_effects and in the loop of add_back_cover_text over one
\* paragraph, the words of the lines made so far, then the words of the line
\* being built, then the words still to come are always the words of the text
\* (of the paragraph); at the end the words of all the lines, in line order,
\* are text.split() exactly.
C11_WrappingKeepsWords ==
  /\ pc = "effects_loop"
       => WordsOf(wrap.lines) \o wrap.current_line \o wrap.words
            = Split(wrap.text)
  /\ pc = "done" /\ wrap.call = "effects" /\ HasText(wrap.text)
       => WordsOf(wrap.drawn) = Split(wrap.text)
  /\ pc = "back_loop"
       => /\ WordsOf(wrap.lines) \o wrap.current_line \o wrap.words
               = Split(wrap.paragraphs[1])
          /\ WordsOf(wrap.all_lines) \o ParagraphWords(wrap.paragraphs)
               = Split(wrap.text)
  /\ pc = "back_paragraphs"
       => WordsOf(wrap.all_lines) \o ParagraphWords(wrap.paragraphs)
            = Split(wrap.text)
  /\ pc = "done" /\ wrap.call = "back"
       => /\ WordsOf(wrap.all_lines) = Split(wrap.text)
          /\ WordsOf(wrap.drawn) = Split(wrap.text)

\* add_back_cover_text has ended on a text of two paragraphs and three words:
\* one paragraph was wrapped into two lines, and each of the three lines went
\* through the loop of draw_text_with_effects again.
C11_Witness ==
  /\ pc = "done" /\ wrap.call = "back" /\ wrap.max_width # 0
  /\ Len(Split(wrap.text)) = 3
  /\ Len(wrap.all_lines) = 4
  /\ Len(wrap.drawn) = 3

FrontDone == pc = "done" /\ trace = <<"front_text">> /\ faulted = {}

\* The positions the calls for one text block are anchored at.
AnchorsOf(calls, what) ==
  {calls[i].position : i \in {j \in 1..Len(calls) : calls[j].what = what}}

\* C12: when the subtitle is empty or all whitespace, add_front_cover_text
\* makes no drawing call for a subtitle, and the title and the author are
\* anchored exactly where they are when the same request has a subtitle,
\* whatever height the title measures.
C12_MissingSubtitle ==
  FrontDone /\ ~HasText(book_data.subtitle) =>
    /\ \A i \in 1..Len(draws) : draws[i].what # "subtitle"
    /\ \A th \in TitleHeights :
         \E with \in {front_cover_calls(
                        [book_data EXCEPT !.subtitle = <<"S", "\t", "b">>],
                        region.x, region.y, region.width, region.height, th)} :
           /\ AnchorsOf(with, "subtitle") # {}
           /\ \A what \in {"title", "author"} :
                /\ AnchorsOf(draws, what) # {}
                /\ AnchorsOf(draws, what) = AnchorsOf(with, what)

\* C12, reached: a front cover text with a subtitle of a tab, a carriage
\* return and a newline was drawn on a panel 1800 px wide and 2775 px high: two calls were made.
C12_Witness ==
  /\ FrontDone /\ book_data.subtitle = <<"\t", "\r", "\n">>
  /\ region.width = 1800 /\ region.height = 2775
  /\ Len(draws) = 2

SpineDone == pc = "done" /\ trace = <<"spine_text">>

\* C13: for every spine width from 18 px to 600 px and every panel height,
\* the rectangle add_spine_text pastes its rotated and scaled buffer on lies
\* within the spine region [x, x+width) x [y, y+height), so that nothing
\* outside the region is changed.
C13_SpineBufferInRegion ==
  SpineDone /\ region.width \in MinSpinePx..MaxSpinePx =>
    \A i \in 1..Len(draws) :
      /\ draws[i].paste[1] >= region.x
      /\ draws[i].paste[2] >= region.y
      /\ draws[i].paste[1] + draws[i].size[1] <= region.x + region.width
      /\ draws[i].paste[2] + draws[i].size[2] <= region.y + region.height

\* C13, reached: a buffer was pasted on a spine 75 px wide and 2775 px high
\* that begins at x = 1837.
C13_Witness ==
  /\ SpineDone /\ Len(draws) = 1
  /\ region.width = 75 /\ region.height = 2775 /\ region.x = 1837
  /\ draws[1].size = <<75, 2775>>

\* C14, as the specification states it: an image whose aspect ratio is
\* exactly the target's (w * H = h * W) is fitted by the centred crop alone:
\* create_blurred_background is not called and the result has no synthesized
\* background.
C14_ExactRatioCropsOnly ==
  Returned /\ faults = {} /\ img[1] * target[2] = img[2] * target[1] =>
    fit.path = "crop" /\ fit.background = "none"

\* C14, reached: a 42 x 63 image fitted to 1800 x 2700 without any fault was
\* scaled to 1799 x 2700 and pasted on a blurred background.
C14_Witness ==
  /\ Returned /\ faults = {}
  /\ img = <<42, 63>> /\ target = <<1800, 2700>>
  /\ fit.path = "background" /\ fit.scaled = <<1799, 2700>>

CompositingSteps ==
  <<"init_canvas", "paste_back", "paste_front", "front_text", "back_text",
    "spine_text", "export">>

StepIndex(step) == CHOOSE i \in 1..Len(CompositingSteps) : CompositingSteps[i] = step

Ran(step) == \E i \in 1..Len(trace) : trace[i] = step

\* The steps run so far are steps of the pass, each once, in its order.
C15_Forward ==
  /\ \A i \in 1..Len(trace) : \E k \in 1..Len(CompositingSteps) :
       trace[i] = CompositingSteps[k]
  /\ \A i, j \in 1..Len(trace) :
       i < j => StepIndex(trace[i]) < StepIndex(trace[j])

\* C15, as the specification states it: generate_cover runs init canvas,
\* [paste back panel], paste front panel, front text, [back text], [spine
\* text], export in this order, no step twice; in a call that returns True
\* each step in brackets has run exactly when its own input is there: the
\* back panel when a back image is given, the back text when back_cover_text
\* is not empty, the spine text when spine_text is not empty.
C15_StepsFollowInputs ==
  /\ C15_Forward
  /\ pc = "done" /\ result = "True" =>
       /\ \A step \in {"init_canvas", "paste_front", "front_text", "export"} :
            Ran(step)
       /\ Ran("paste_back") <=> back_image_path
       /\ Ran("back_text") <=>
            /\ HasKeys(book_data, {"back_cover_text"})
            /\ ~IsBlank(book_data.back_cover_text)
       /\ Ran("spine_text") <=> ~IsBlank(book_data.spine_text)

\* C15, reached: a call with a back cover text and no back image returned
\* True, and the back text step did not run.
C15_Witness ==
  /\ pc = "done" /\ result = "True"
  /\ ~back_image_path
  /\ HasKeys(book_data, {"back_cover_text"})
  /\ ~IsBlank(book_data.back_cover_text)
  /\ ~Ran("back_text")
  /\ trace = <<"init_canvas", "paste_front", "front_text", "spine_text",
               "export">>

\* The lines made by the loop of draw_text_with_effects so far.
C16_Lines ==
  pc \in {"effects_loop", "done"} /\ wrap.call = "effects"
  /\ wrap.max_width # 0
    => /\ \A i \in 1..Len(wrap.lines) :
            /\ wrap.lines[i] # <<>>
            /\ Split(wrap.lines[i]) # <<>>
            /\ \/ TextWidth(wrap.lines[i]) <= wrap.max_width
               \/ Len(Split(wrap.lines[i])) = 1
            /\ \A j \in 1..Len(Split(wrap.lines[i])) :
                 TextWidth(Split(wrap.lines[i])[j]) > wrap.max_width
                   => wrap.lines[i] = Split(wrap.lines[i])[j]
       /\ pc = "done" /\ HasText(wrap.text) => wrap.lines # <<>>
       /\ pc = "effects_loop" => ENABLED NextWrap

\* Every turn of the loop takes one word off the words still to come, and the
\* loop is left when none is to come.
C16_LoopProgress ==
  pc = "effects_loop"
    => \/ pc' = "effects_loop" /\ Len(wrap'.words) < Len(wrap.words)
       \/ pc' = "done" /\ wrap.words = <<>>

\* C16: when max_width is given, every line made by the greedy loop of
\* draw_text_with_effects is at most max_width wide or is one word; a word
\* wider than max_width is alone on its line; no line is empty; and the loop
\* ends for every text: it can always take its next step, and each step
\* shortens the finite list of the words still to come.
C16_GreedyLines == [](C16_Lines) /\ [][C16_LoopProgress]_vars

\* The loop has ended with a word wider than max_width alone on the second of
\* three lines.
C16_Witness ==
  /\ pc = "done" /\ wrap.call = "effects" /\ wrap.max_width = 1
  /\ wrap.lines = << <<"a">>, <<"W">>, <<"a">> >>

\* C17, as the specification states it: the shadow and the outline of the
\* spine text have the contrast colour draw_text_with_effects chooses for the
\* fill: light for a dark fill, dark for a light fill.
C17_SpineContrast ==
  SpineDone =>
    \A i \in 1..Len(draws) :
      /\ draws[i].outline_color = contrast_colors(draws[i].fill).outline_color
      /\ draws[i].shadow_color = contrast_colors(draws[i].fill).shadow_color

\* C17, reached: a spine text with the fill #000000 was drawn with a black
\* outline and a black shadow.
C17_Witness ==
  /\ SpineDone /\ Len(draws) = 1
  /\ draws[1].fill = <<0, 0, 0>>
  /\ draws[1].outline_color = <<0, 0, 0>>
  /\ draws[1].shadow_color = <<0, 0, 0, 180>>

\* C18, as the specification states it: the fallback scales the image to fit:
\* the scaled image is at most the target on both sides and touches it on
\* one, and it is centred whole on a white canvas of the target size.
C18_FallbackFits ==
  Returned /\ fit.path = "fallback" =>
    /\ fit.size = target /\ fit.background = "white"
    /\ fit.scaled[1] <= target[1] /\ fit.scaled[2] <= target[2]
    /\ fit.scaled[1] = target[1] \/ fit.scaled[2] = target[2]
    /\ fit.offset[1] >= 0 /\ fit.offset[2] >= 0

\* C18, reached: the composition failed for a 1500 x 2000 image on a
\* 1800 x 2700 target; the fallback scaled the image to 2025 x 2700 and pasted
\* it at x = -113, so that it is cut on both sides.
C18_Witness ==
  /\ Returned /\ fit.path = "fallback" /\ faults = {"compose"}
  /\ img = <<1500, 2000>> /\ target = <<1800, 2700>>
  /\ fit.scaled = <<2025, 2700>>
  /\ fit.offset = <<-113, 0>>

\* C19, as the specification states it: on the background path the scaled
\* image is pasted whole: it is at most the target on both sides and its
\* paste offsets are not negative.
C19_BackgroundPasteWhole ==
  Returned /\ fit.path = "background" =>
    /\ fit.scaled[1] <= target[1] /\ fit.scaled[2] <= target[2]
    /\ fit.offset[1] >= 0 /\ fit.offset[2] >= 0

\* C19, reached: with no fault, a 2 x 1 image fitted to 1 x 2 was scaled to
\* 3 x 1 and pasted on the background at x = -1.
C19_Witness ==
  /\ Returned /\ fit.path = "background" /\ faults = {}
  /\ img = <<2, 1>> /\ target = <<1, 2>>
  /\ fit.scaled = <<3, 1>> /\ fit.offset[1] = -1

\* C20: after step 1 of extend_image_intelligently the scaled image covers
\* the minimum fill ratio of the target on both sides, up to the truncation
\* of the scaled sides to integers: new_width >= 0.85 * target_width - 1 and
\* new_height >= 0.85 * target_height - 1.
C20_MinimumFill ==
  fit # Pending /\ "open" \notin faults =>
    \E new \in {ScaledSize(img, target[1], target[2])} :
      /\ 100 * (new[1] + 1) >= 85 * target[1]
      /\ 100 * (new[2] + 1) >= 85 * target[2]

\* C20, reached: a 2 x 1 image fitted to 1 x 2 was scaled up to the minimum
\* fill, 3 x 1, where 0.85 * 2 = 1.7 was truncated to 1.
C20_Witness ==
  /\ fit # Pending /\ faults = {}
  /\ img = <<2, 1>> /\ target = <<1, 2>>
  /\ ScaledSize(img, target[1], target[2]) = <<3, 1>>

\* C21: for every catalog trim and every page count, the back panel at
\* (back_x, back_y), the spine at (spine_x, spine_y) and the front panel at
\* (front_x, front_y), each of the panel height, lie inside the canvas, come
\* left to right in the order back, spine, front, and do not overlap.
C21_RectanglesInCanvas ==
  pixels # Pending =>
    /\ pixels.back_x = pixels.bleed_px
    /\ pixels.spine_x = pixels.front_x - pixels.spine_width_px
    /\ pixels.front_x
         = pixels.width_px - pixels.bleed_px - pixels.cover_width_px
    /\ \A r \in {<<pixels.back_x, pixels.back_y, pixels.cover_width_px>>,
                 <<pixels.spine_x, pixels.spine_y, pixels.spine_width_px>>,
                 <<pixels.front_x, pixels.front_y, pixels.cover_width_px>>} :
         /\ r[1] >= 0 /\ r[1] + r[3] <= pixels.width_px
         /\ r[2] = pixels.bleed_px
         /\ r[2] >= 0 /\ r[2] + pixels.cover_height_px <= pixels.height_px
    /\ pixels.cover_width_px > 0 /\ pixels.spine_width_px > 0
    /\ pixels.cover_height_px > 0
    /\ pixels.back_x + pixels.cover_width_px <= pixels.spine_x
    /\ pixels.spine_x + pixels.spine_width_px <= pixels.front_x

\* C21, reached: trim 8.5x11 with 1000 pages: the back panel is columns 37 to
\* 2586, the spine the 375 columns before the front panel, on a canvas 5550 px
\* wide.
C21_Witness ==
  /\ pixels # Pending
  /\ book_data.trim_size = "8.5x11" /\ book_data.page_count = 1000
  /\ pixels.back_x = 37 /\ pixels.cover_width_px = 2550
  /\ pixels.spine_width_px = 375
  /\ pixels.spine_x + pixels.spine_width_px = pixels.front_x
  /\ pixels.front_x + pixels.cover_width_px <= pixels.width_px

\* C22: when the POST handler returns, no upload it saved is left in the
\* upload folder, whichever way it returns: a back upload of a type that is
\* not allowed, a form that does not parse, a missing title or author, a
\* generation that succeeded or failed, or an exception raised after a file
\* was saved.  A file is left only when os.remove itself raised on it.
C22_UploadsRemoved ==
  pc = "done" /\ upload # Pending =>
    /\ upload.response # "none"
    /\ \A f \in {"front", "back"} :
         upload.files[f] = "exists" => f \in upload.request.unremovable

\* C22, reached: both uploads were saved, generate_cover returned True,
\* send_file raised, and the handler returned from its except clause with
\* both files removed.
C22_Witness ==
  /\ pc = "done" /\ upload # Pending
  /\ upload.request.unremovable = {}
  /\ upload.paths = {"front", "back"}
  /\ upload.success = "True" /\ upload.response = "redirect"
  /\ upload.files = [f \in {"front", "back"} |-> "removed"]

====
